---- MODULE Spec2Model ----
(***************************************************************************)
(* Model of the backtesting core of polaris65b/autoTrading:                *)
(*   - the ledger          src/src/backtest/portfolio.py                   *)
(*   - the single-asset engine  src/src/backtest/simple_engine.py          *)
(*   - the multi-asset engine   src/src/backtest/multi_asset_engine.py     *)
(*   - the strategies the engines are driven with (src/src/strategy)       *)
(*                                                                         *)
(* Arithmetic.  The program computes in binary floating point; the model   *)
(* computes exactly, in fixed point.  Prices are whole currency units.     *)
(* Every money amount (cash, amount, commission, dividend, market value)   *)
(* is an integer number of 1/Scale units, and a commission rate is an      *)
(* integer number of 1/Scale, so amount * rate is exact.  int(x / y) of    *)
(* the program is the integer quotient of the exact values.                *)
(***************************************************************************)
EXTENDS Integers, Sequences, FiniteSets, TLC

\* money resolution: 1 currency unit = Scale money units; commission rates
\* are given in 1/Scale (DEFAULT_COMMISSION 0.001 is the rate 1)
Scale == 1000

None == "None"

RECURSIVE GCD(_, _)
GCD(a, b) == IF b = 0 THEN a ELSE GCD(b, a % b)

\* an exact rational n/d in lowest terms (the model's float for an average price)
Frac(n, d) == LET g == GCD(n, d) IN IF g = 0 THEN [n |-> n, d |-> d]
                                              ELSE [n |-> n \div g, d |-> d \div g]

RECURSIVE SumOver(_, _)
\* sum of f[x] over the finite set S
SumOver(S, f) == IF S = {} THEN 0
                 ELSE LET x == CHOOSE y \in S : TRUE
                      IN f[x] + SumOver(S \ {x}, f)

(***************************************************************************)
(* Ledger: Portfolio, Position, Trade (portfolio.py)                       *)
(***************************************************************************)

\* Position.market_value: quantity * current_price
market_value(pos) == pos.quantity * pos.current_price * Scale

\* Position.cost: quantity * avg_price, as an exact fraction of money units
cost(pos) == Frac(pos.quantity * pos.avg_price.n * Scale, pos.avg_price.d)

\* positions = {} (field default)
EmptyPositions == [t \in {} |-> None]

\* Portfolio.__init__ / __post_init__: cash starts as initial_cash, nothing held
NewPortfolio(initial_cash, commission_rate) ==
    [initial_cash    |-> initial_cash,
     commission_rate |-> commission_rate,
     cash            |-> initial_cash,
     positions       |-> EmptyPositions,
     trades          |-> << >>,
     equity_curve    |-> << >>]

\* Portfolio._calculate_commission: amount * commission_rate
\* (amount is a whole number of currency units expressed in money units, the
\* rate is in 1/Scale, so the product is exact)
CommissionNone(P, amount) == 0
_calculate_commission(P, amount) == (amount \div Scale) * P.commission_rate

\* Portfolio.total_market_value
TotalMarketValueAtCost(P) ==
    SumOver(DOMAIN P.positions,
            [t \in DOMAIN P.positions |->
                (P.positions[t].quantity * P.positions[t].avg_price.n * Scale)
                    \div P.positions[t].avg_price.d])
total_market_value(P) ==
    SumOver(DOMAIN P.positions,
            [t \in DOMAIN P.positions |-> market_value(P.positions[t])])

\* Portfolio.total_value: cash + total_market_value
total_value(P) == P.cash + total_market_value(P)

\* Portfolio.get_position: positions.get(ticker)
get_position(P, ticker) ==
    IF ticker \in DOMAIN P.positions THEN P.positions[ticker] ELSE None

\* Portfolio.update_price
UpdatePriceCreates(P, ticker, price) ==
    [P EXCEPT !.positions =
        [t \in DOMAIN P.positions \cup {ticker} |->
            IF t = ticker
            THEN [ticker |-> ticker, quantity |-> 0, avg_price |-> Frac(price, 1),
                  current_price |-> price, first_buy_date |-> 0]
            ELSE P.positions[t]]]
update_price(P, ticker, price) ==
    IF ticker \in DOMAIN P.positions
    THEN [P EXCEPT !.positions[ticker].current_price = price]
    ELSE P

\* Portfolio.receive_dividend (dividend_per_share in money units)
DividendPerCall(P, ticker, dividend_per_share, date) ==
    [P EXCEPT !.cash = @ + dividend_per_share]
DividendLogged(P, ticker, dividend_per_share, date) ==
    IF ticker \notin DOMAIN P.positions THEN P
    ELSE [P EXCEPT
            !.cash   = @ + P.positions[ticker].quantity * dividend_per_share,
            !.trades = Append(@, [date |-> date, ticker |-> ticker,
                                  action |-> "DIVIDEND",
                                  quantity |-> P.positions[ticker].quantity,
                                  price |-> 0, commission |-> 0,
                                  amount |-> P.positions[ticker].quantity
                                                * dividend_per_share])]
receive_dividend(P, ticker, dividend_per_share, date) ==
    IF ticker \notin DOMAIN P.positions THEN P
    ELSE LET total_dividend == P.positions[ticker].quantity * dividend_per_share
         IN IF total_dividend > 0 THEN [P EXCEPT !.cash = @ + total_dividend]
                                  ELSE P

\* the funds test of buy: `if self.cash < total_cost: raise InsufficientFundsError`
FundsAlwaysEnough(cash, total_cost) == TRUE
HasFunds(cash, total_cost) == ~(cash < total_cost)

\* the position written by buy: a new Position, or quantity and average price
\* of the existing one recomputed
BoughtAtLastPrice(P, ticker, quantity, price, date) ==
    [ticker         |-> ticker,
     quantity       |-> quantity + (IF ticker \in DOMAIN P.positions
                                    THEN P.positions[ticker].quantity ELSE 0),
     avg_price      |-> Frac(price, 1),
     current_price  |-> price,
     first_buy_date |-> date]
BoughtPosition(P, ticker, quantity, price, date) ==
    IF ticker \in DOMAIN P.positions
    THEN LET pos            == P.positions[ticker]
             total_quantity == pos.quantity + quantity
         IN [pos EXCEPT
               !.avg_price = Frac(pos.quantity * pos.avg_price.n
                                     + quantity * price * pos.avg_price.d,
                                  pos.avg_price.d * total_quantity),
               !.quantity  = total_quantity]
    ELSE [ticker         |-> ticker,
          quantity       |-> quantity,
          avg_price      |-> Frac(price, 1),
          current_price  |-> price,
          first_buy_date |-> date]

\* `raise InvalidOrderError(...)` / `raise InsufficientFundsError(...)` of buy
\* and sell: every raise comes before the first write to the ledger.
\* Result of a call: [P |-> the ledger after it, err |-> the exception raised]
RaisesAfterDebit(P, exc) == [P |-> [P EXCEPT !.cash = @ - Scale], err |-> exc]
Raises(P, exc) == [P |-> P, err |-> exc]

\* Portfolio.buy(ticker, quantity, price, date, allow_fractional).  A quantity
\* of the model is a whole number; is_int says whether the object passed is a
\* Python int (isinstance(quantity, int)) or another number of that value,
\* such as the float 100.0.
buy(P, ticker, quantity, is_int, price, date, allow_fractional) ==
    IF quantity <= 0 THEN Raises(P, "InvalidOrder")
    ELSE IF ~allow_fractional /\ ~is_int THEN Raises(P, "InvalidOrder")
    ELSE LET amount     == quantity * price * Scale
             commission == _calculate_commission(P, amount)
             total_cost == amount + commission
         IN IF ~HasFunds(P.cash, total_cost)
            THEN Raises(P, "InsufficientFunds")
            ELSE LET newpos == BoughtPosition(P, ticker, quantity, price, date)
                     trade  == [date |-> date, ticker |-> ticker, action |-> "BUY",
                                quantity |-> quantity, price |-> price,
                                commission |-> commission, amount |-> amount]
                 IN [P |-> [P EXCEPT
                              !.cash      = @ - total_cost,
                              !.positions = [t \in DOMAIN P.positions \cup {ticker} |->
                                               IF t = ticker THEN newpos
                                               ELSE P.positions[t]],
                              !.trades    = Append(@, trade)],
                     err |-> None]

\* the end of sell: `pos.quantity -= quantity; if pos.quantity == 0: del ...`
\* a sale that closes the position whatever it leaves
DropPosition(positions, ticker, quantity) ==
    [t \in DOMAIN positions \ {ticker} |-> positions[t]]
KeepEmptyPosition(positions, ticker, quantity) ==
    [positions EXCEPT ![ticker].quantity = @ - quantity]
ReducePosition(positions, ticker, quantity) ==
    IF positions[ticker].quantity - quantity = 0
    THEN [t \in DOMAIN positions \ {ticker} |-> positions[t]]
    ELSE [positions EXCEPT ![ticker].quantity = @ - quantity]

\* the quantity sell goes on with when allow_partial lets an over-sell pass:
\* `if quantity > pos.quantity: ... quantity = pos.quantity`
NoClamp(quantity, held) == quantity
ClampToHeld(quantity, held) == IF quantity > held THEN held ELSE quantity

\* Portfolio.sell(ticker, quantity, price, date, allow_partial)
sell(P, ticker, quantity, price, date, allow_partial) ==
    IF ticker \notin DOMAIN P.positions THEN Raises(P, "InvalidOrder")
    ELSE IF quantity <= 0 THEN Raises(P, "InvalidOrder")
    ELSE IF quantity > P.positions[ticker].quantity /\ ~allow_partial
         THEN Raises(P, "InvalidOrder")
    ELSE LET q          == ClampToHeld(quantity, P.positions[ticker].quantity)
             amount     == q * price * Scale
             commission == _calculate_commission(P, amount)
             net_amount == amount - commission
             trade      == [date |-> date, ticker |-> ticker, action |-> "SELL",
                            quantity |-> q, price |-> price,
                            commission |-> commission, amount |-> amount]
         IN [P |-> [P EXCEPT
                      !.cash      = @ + net_amount,
                      !.positions = ReducePosition(@, ticker, q),
                      !.trades    = Append(@, trade)],
             err |-> None]

\* Portfolio.snapshot(date)
snapshot(P, date) ==
    [P EXCEPT !.equity_curve =
        Append(@, [date          |-> date,
                   cash          |-> P.cash,
                   market_value  |-> total_market_value(P),
                   total_value   |-> total_value(P),
                   num_positions |-> Cardinality(DOMAIN P.positions)])]

(***************************************************************************)
(* Strategies (src/strategy).  A DataFrame is a record                     *)
(*   [columns_ok |-> the five OHLCV columns are present,                    *)
(*    rows       |-> the rows in index (date) order]                       *)
(* and a row is [date, Close, Dividends, Signal, TargetTicker, Mode]; a     *)
(* column the strategy does not write reads as 0 or None.  Dates are the    *)
(* integers 1, 2, ...; 0 stands for "no date".  A ratio is a fraction       *)
(* [n, d].                                                                  *)
(***************************************************************************)
NoDate == 0
Ratio(n, d) == [n |-> n, d |-> d]
Abs(x) == IF x < 0 THEN 0 - x ELSE x
Min(a, b) == IF a < b THEN a ELSE b

\* Position quantity of a ticker, 0 when it is not held: the idiom
\* `q = 0; if portfolio.get_position(t): q = portfolio.get_position(t).quantity`
quantity_of(P, ticker) ==
    IF ticker \in DOMAIN P.positions THEN P.positions[ticker].quantity ELSE 0

\* BaseStrategy.__init__ and the attributes the concrete classes add; an
\* attribute a class does not have is None, 0 or FALSE and is never read
BaseStrategy(cls) ==
    [cls |-> cls, signals |-> << >>,
     stock_ticker |-> None, bond_ticker |-> None, use_bond |-> FALSE,
     position_pct |-> Ratio(0, 1), stock_pct |-> Ratio(0, 1),
     rebalance_mode |-> None, rebalance_freq |-> 0,
     band_threshold |-> Ratio(0, 1), ma_period |-> 0,
     current_holding |-> None, current_mode |-> None,
     last_rebalance_date |-> NoDate, first_buy_date |-> NoDate,
     base_ticker |-> None, stock_ticker1 |-> None, stock_ticker2 |-> None,
     stock1_pct |-> Ratio(0, 1), stock2_pct |-> Ratio(0, 1)]

\* hasattr(strategy, attr) for the attributes the engines test
HasAttr(S, attr) ==
    CASE attr = "stock_ticker"  -> TRUE
      [] attr = "bond_ticker"   -> S.cls \in {"Shannon", "MovingAverage", "MovingAverageRebalance",
                                              "MovingAverageShannonHybrid",
                                              "MovingAverageShannonHybrid2"}
      [] attr = "use_bond"      -> S.cls \in {"Shannon", "MovingAverageShannonHybrid",
                                              "MovingAverageShannonHybrid2"}
      [] attr = "base_ticker"   -> S.cls = "MovingAverageRebalance"
      [] attr = "stock_ticker1" -> S.cls = "MovingAverageRebalance"
      [] OTHER                  -> FALSE

\* BaseStrategy.reset
reset(S) == [S EXCEPT !.signals = << >>]

\* BaseStrategy.validate_data: all of Open, High, Low, Close, Volume are columns
AnyColumns(S, data) == TRUE
validate_data(S, data) == data.columns_ok

BuyHoldStrategy(position_pct, stock_ticker) ==
    [BaseStrategy("BuyHold") EXCEPT
        !.position_pct = position_pct, !.stock_ticker = stock_ticker]

ShannonStrategy(stock_pct, stock_ticker, bond_ticker, rebalance_mode, rebalance_freq, band_threshold) ==
    [BaseStrategy("Shannon") EXCEPT
        !.stock_pct = stock_pct, !.stock_ticker = stock_ticker,
        !.bond_ticker = bond_ticker, !.rebalance_mode = rebalance_mode,
        !.rebalance_freq = rebalance_freq, !.band_threshold = band_threshold,
        !.use_bond = (bond_ticker # None)]

MovingAverageStrategy(stock_ticker, bond_ticker, ma_period) ==
    [BaseStrategy("MovingAverage") EXCEPT
        !.stock_ticker = stock_ticker, !.bond_ticker = bond_ticker,
        !.ma_period = ma_period]

\* the two target ratios of the explored strategies add up to 1, so the
\* automatic normalisation of __init__ leaves them alone
MovingAverageRebalanceStrategy(base_ticker, stock_ticker1, stock_ticker2, bond_ticker, ma_period, stock1_pct, stock2_pct, band_threshold) ==
    LET base == IF base_ticker = None THEN stock_ticker1 ELSE base_ticker
    IN [BaseStrategy("MovingAverageRebalance") EXCEPT
        !.base_ticker = base, !.stock_ticker = base,
        !.stock_ticker1 = stock_ticker1, !.stock_ticker2 = stock_ticker2,
        !.bond_ticker = bond_ticker, !.ma_period = ma_period,
        !.stock1_pct = stock1_pct, !.stock2_pct = stock2_pct,
        !.band_threshold = band_threshold]

MovingAverageShannonHybridStrategy(stock_ticker, bond_ticker, ma_period, stock_pct, band_threshold) ==
    [BaseStrategy("MovingAverageShannonHybrid") EXCEPT
        !.stock_ticker = stock_ticker, !.bond_ticker = bond_ticker,
        !.ma_period = ma_period, !.stock_pct = stock_pct,
        !.band_threshold = band_threshold, !.use_bond = (bond_ticker # None)]

\* MovingAverageShannonHybrid2Strategy.__init__: use_bond is always True
MovingAverageShannonHybrid2Strategy(stock_ticker, bond_ticker, ma_period, stock_pct, band_threshold) ==
    [BaseStrategy("MovingAverageShannonHybrid2") EXCEPT
        !.stock_ticker = stock_ticker, !.bond_ticker = bond_ticker,
        !.ma_period = ma_period, !.stock_pct = stock_pct,
        !.band_threshold = band_threshold, !.use_bond = TRUE]

\* ---- generate_signals ----
\* df["Close"].rolling(window=period, min_periods=1).mean() compared with the
\* close of row i: Close >= MA  <=>  Close * (rows in the window) >= their sum
RECURSIVE CloseSum(_, _, _)
CloseSum(rows, from, to) ==
    IF from > to THEN 0 ELSE rows[from].Close + CloseSum(rows, from + 1, to)
\* a close counted as above its average only when it exceeds it
StrictlyAboveMA(rows, i, period) ==
    LET from == IF i - period + 1 < 1 THEN 1 ELSE i - period + 1
    IN rows[i].Close * (i - from + 1) > CloseSum(rows, from, i)
AboveMA(rows, i, period) ==
    LET from == IF i - period + 1 < 1 THEN 1 ELSE i - period + 1
    IN rows[i].Close * (i - from + 1) >= CloseSum(rows, from, i)

\* the Signal of row i of a Shannon frame; ShannonLastRebalance is last_date of
\* the time_based loop after row i
\* a loop that moves last_date on every bar
RebalanceEveryBar(S, rows, i) == rows[i].date
RECURSIVE ShannonLastRebalance(_, _, _)
ShannonLastRebalance(S, rows, i) ==
    IF i = 1 THEN rows[1].date
    ELSE LET last_date == ShannonLastRebalance(S, rows, i - 1)
         IN IF rows[i].date - last_date >= S.rebalance_freq
            THEN rows[i].date ELSE last_date
ShannonSignal(S, rows, i) ==
    IF i = 1 THEN 1
    ELSE IF S.rebalance_mode = "time_based"
         THEN IF ShannonLastRebalance(S, rows, i) = rows[i].date THEN 2 ELSE 0
    ELSE IF S.rebalance_mode = "banding" THEN 3
    ELSE 0

\* the (Signal, TargetTicker) of row i of a MovingAverage frame
RECURSIVE MovingAverageRow(_, _, _)
MovingAverageRow(S, rows, i) ==
    LET curr_above == AboveMA(rows, i, S.ma_period)
        target     == IF curr_above THEN S.stock_ticker ELSE S.bond_ticker
    IN IF i = 1 THEN [Signal |-> 1, TargetTicker |-> target]
       ELSE IF AboveMA(rows, i - 1, S.ma_period) # curr_above
            THEN [Signal |-> 1, TargetTicker |-> target]
       ELSE [Signal |-> 0,
             TargetTicker |-> MovingAverageRow(S, rows, i - 1).TargetTicker]

\* the (Signal, TargetTicker) of row i of a MovingAverageRebalance frame
MovingAverageRebalanceRow(S, rows, i) ==
    LET curr_above == AboveMA(rows, i, S.ma_period)
    IN IF curr_above THEN [Signal |-> 3, TargetTicker |-> "ABOVE"]
       ELSE IF i = 1 THEN [Signal |-> 1, TargetTicker |-> S.bond_ticker]
       ELSE IF AboveMA(rows, i - 1, S.ma_period)
            THEN [Signal |-> 1, TargetTicker |-> S.bond_ticker]
       ELSE [Signal |-> 0, TargetTicker |-> S.bond_ticker]

\* a frame that asks for the banding check on every bar without a transition
BandingCheckEveryBar(S, rows, i) ==
    [Signal |-> IF i = 1 THEN 1
                ELSE IF AboveMA(rows, i - 1, S.ma_period) # AboveMA(rows, i, S.ma_period)
                THEN 1 ELSE 3,
     Mode   |-> IF AboveMA(rows, i, S.ma_period) THEN "ABOVE" ELSE "BELOW"]

\* the (Signal, Mode) of row i of a MovingAverageShannonHybrid frame
RECURSIVE MovingAverageShannonHybridRow(_, _, _)
MovingAverageShannonHybridRow(S, rows, i) ==
    LET curr_above == AboveMA(rows, i, S.ma_period)
        mode       == IF curr_above THEN "ABOVE" ELSE "BELOW"
    IN IF i = 1 THEN [Signal |-> 1, Mode |-> mode]
       ELSE IF AboveMA(rows, i - 1, S.ma_period) # curr_above
            THEN [Signal |-> 1, Mode |-> mode]
       ELSE LET prev_mode == MovingAverageShannonHybridRow(S, rows, i - 1).Mode
            IN [Signal |-> IF prev_mode = "BELOW" THEN 3 ELSE 0, Mode |-> prev_mode]

\* the frame generate_signals returns
SignalFrame(S, data) ==
    [data EXCEPT !.rows =
        [i \in 1..Len(data.rows) |->
            CASE S.cls = "BuyHold" ->
                   [data.rows[i] EXCEPT !.Signal = IF i = 1 THEN 1 ELSE 0]
              [] S.cls = "Shannon" ->
                   [data.rows[i] EXCEPT !.Signal = ShannonSignal(S, data.rows, i)]
              [] S.cls = "MovingAverage" ->
                   [data.rows[i] EXCEPT
                       !.Signal = MovingAverageRow(S, data.rows, i).Signal,
                       !.TargetTicker = MovingAverageRow(S, data.rows, i).TargetTicker]
              [] S.cls = "MovingAverageRebalance" ->
                   [data.rows[i] EXCEPT
                       !.Signal = MovingAverageRebalanceRow(S, data.rows, i).Signal,
                       !.TargetTicker = MovingAverageRebalanceRow(S, data.rows, i).TargetTicker]
              [] S.cls \in {"MovingAverageShannonHybrid",
                             "MovingAverageShannonHybrid2"} ->
                   [data.rows[i] EXCEPT
                       !.Signal = MovingAverageShannonHybridRow(S, data.rows, i).Signal,
                       !.Mode = MovingAverageShannonHybridRow(S, data.rows, i).Mode]]]

\* the strategy fields generate_signals writes
SignalState(S, data) ==
    LET rows == data.rows
        n    == Len(rows)
        transitions == {i \in 1..n : MovingAverageRow(S, rows, i).Signal = 1}
        rebalances  == {i \in 2..n : ShannonSignal(S, rows, i) = 2}
        Last(I)     == CHOOSE i \in I : \A j \in I : j <= i
    IN CASE S.cls = "BuyHold" -> [S EXCEPT !.first_buy_date = rows[1].date]
         [] S.cls = "Shannon" ->
              IF S.rebalance_mode = "time_based" /\ rebalances # {}
              THEN [S EXCEPT !.last_rebalance_date = rows[Last(rebalances)].date]
              ELSE S
         [] S.cls = "MovingAverage" ->
              [S EXCEPT !.current_holding =
                   MovingAverageRow(S, rows, Last(transitions)).TargetTicker]
         [] S.cls = "MovingAverageRebalance" ->
              [S EXCEPT !.current_mode =
                   IF AboveMA(rows, n, S.ma_period) THEN "above" ELSE "below"]
         [] S.cls \in {"MovingAverageShannonHybrid", "MovingAverageShannonHybrid2"} ->
              [S EXCEPT !.current_mode = MovingAverageShannonHybridRow(S, rows, n).Mode,
                        !.current_holding = S.stock_ticker]

\* strategy.generate_signals(data): the frame with its signal columns, the
\* strategy after the call, and the exception raised (a frame without the
\* OHLCV columns fails the validation, `df.iloc[0]` of an empty frame raises)
generate_signals(S, data) ==
    IF ~validate_data(S, data)
    THEN [df |-> data, strategy |-> S, err |-> "ValueError"]
    ELSE IF Len(data.rows) = 0
    THEN [df |-> data, strategy |-> S, err |-> "IndexError"]
    ELSE [df |-> SignalFrame(S, data), strategy |-> SignalState(S, data),
          err |-> None]

\* ---- calculate_position_size ----
\* The result of a sizing call: the order delta, or the exception raised.
\* `int(x / price)` of a zero price is int(inf) or int(nan): OverflowError or
\* ValueError.  Amounts are money units, prices whole currency units.
Sized(q) == [q |-> q, exc |-> None]
SizingRaises(numerator) ==
    [q |-> 0, exc |-> IF numerator = 0 THEN "ValueError" ELSE "OverflowError"]

\* the keyword arguments the engines pass to calculate_position_size; mode is
\* the Mode of the day's row, read by MovingAverageShannonHybrid only (the
\* single-asset engine fills it in)
Kwargs(current_quantity, cash, current_bond_value, current_stock_value, commission_rate, ticker) ==
    [current_quantity |-> current_quantity, cash |-> cash,
     current_bond_value |-> current_bond_value,
     current_stock_value |-> current_stock_value,
     commission_rate |-> commission_rate, ticker |-> ticker, mode |-> None]

\* BuyHoldStrategy.calculate_position_size
BuyHold_calculate_position_size(S, portfolio_value, price, signal, kw) ==
    IF signal = 1
    THEN IF price = 0 THEN SizingRaises(portfolio_value * S.position_pct.n)
         ELSE Sized((portfolio_value * S.position_pct.n * (Scale - kw.commission_rate))
                       \div (S.position_pct.d * Scale * price * Scale))
    ELSE Sized(0)

\* ShannonStrategy.check_banding_rebalance:
\* abs(current_stock_value / portfolio_value - stock_pct) >= band_threshold
Shannon_check_banding_rebalance(S, portfolio_value, current_stock_value) ==
    IF portfolio_value = 0 THEN FALSE
    ELSE Abs(current_stock_value * S.stock_pct.d - S.stock_pct.n * portfolio_value)
             * S.band_threshold.d
         >= S.band_threshold.n * S.stock_pct.d * portfolio_value

\* the rebalancing delta of signals 2 and 3: the distance to the target
\* quantity, a purchase cut down to what available_cash pays for
ShannonRebalanceDelta(S, is_stock, target_quantity, price, kw) ==
    LET quantity_diff  == target_quantity - kw.current_quantity
        unit_cost      == price * (Scale + kw.commission_rate)
        required_cash  == quantity_diff * unit_cost
        available_cash == IF is_stock THEN kw.cash
                          ELSE IF S.use_bond THEN kw.cash + kw.current_bond_value
                          ELSE kw.cash
    IN IF quantity_diff > 0 /\ available_cash < required_cash
       THEN Min(quantity_diff, available_cash \div unit_cost)
       ELSE quantity_diff

\* ShannonStrategy.calculate_position_size
Shannon_calculate_position_size(S, portfolio_value, price, signal, kw) ==
    LET is_stock == \/ kw.ticker = S.stock_ticker
                    \/ (S.stock_ticker = None /\ kw.ticker # None
                                              /\ kw.ticker # S.bond_ticker)
        pct      == IF is_stock THEN S.stock_pct
                    ELSE Ratio(S.stock_pct.d - S.stock_pct.n, S.stock_pct.d)
        target_quantity == (portfolio_value * pct.n) \div (pct.d * price * Scale)
        check_value == IF is_stock THEN kw.current_quantity * price * Scale
                       ELSE kw.current_stock_value
    IN IF signal = 0 THEN Sized(0)
       ELSE IF ~is_stock /\ ~S.use_bond THEN Sized(0)
       ELSE IF price = 0 THEN SizingRaises(portfolio_value * pct.n)
       ELSE IF signal = 1
            THEN Sized((portfolio_value * pct.n * (Scale - kw.commission_rate))
                          \div (pct.d * Scale * price * Scale))
       ELSE IF signal = 2
            THEN Sized(ShannonRebalanceDelta(S, is_stock, target_quantity, price, kw))
       ELSE IF signal = 3
            THEN IF Shannon_check_banding_rebalance(S, portfolio_value, check_value)
                 THEN Sized(ShannonRebalanceDelta(S, is_stock, target_quantity, price, kw))
                 ELSE Sized(0)
       ELSE Sized(0)

\* MovingAverageStrategy.calculate_position_size
MovingAverage_calculate_position_size(S, portfolio_value, price, signal, kw) ==
    IF signal = 0 THEN Sized(0)
    ELSE IF kw.ticker = None \/ S.current_holding = None THEN Sized(0)
    ELSE IF signal = 1
         THEN IF kw.ticker = S.current_holding
              THEN IF price = 0 THEN SizingRaises(portfolio_value)
                   ELSE Sized((portfolio_value * (Scale - kw.commission_rate))
                                  \div (Scale * price * Scale)
                              - kw.current_quantity)
              ELSE IF kw.current_quantity > 0 THEN Sized(0 - kw.current_quantity)
              ELSE Sized(0)
    ELSE Sized(0)

\* MovingAverageRebalanceStrategy.check_banding_rebalance: the ticker to
\* rebalance, None when both ratios are inside the band
MovingAverageRebalance_check_banding_rebalance(S, portfolio_value, current_stock1_value, current_stock2_value) ==
    IF portfolio_value = 0 THEN None
    ELSE LET \* the two differences over the common denominator
             \* stock1_pct.d * stock2_pct.d * portfolio_value
             diff1 == Abs(current_stock1_value * S.stock1_pct.d
                            - S.stock1_pct.n * portfolio_value) * S.stock2_pct.d
             diff2 == Abs(current_stock2_value * S.stock2_pct.d
                            - S.stock2_pct.n * portfolio_value) * S.stock1_pct.d
             band  == S.band_threshold.n * S.stock1_pct.d * S.stock2_pct.d
                         * portfolio_value
         IN IF diff1 * S.band_threshold.d >= band \/ diff2 * S.band_threshold.d >= band
            THEN IF diff1 >= diff2 THEN S.stock_ticker1 ELSE S.stock_ticker2
            ELSE None

\* MovingAverageRebalanceStrategy.calculate_position_size
MovingAverageRebalance_calculate_position_size(S, portfolio_value, price, signal, kw) ==
    LET Target(pct) ==
            Sized((portfolio_value * pct.n * (Scale - kw.commission_rate))
                      \div (pct.d * Scale * price * Scale)
                  - kw.current_quantity)
        SellAll == IF kw.current_quantity > 0 THEN Sized(0 - kw.current_quantity)
                   ELSE Sized(0)
    IN IF signal = 0 THEN Sized(0)
       ELSE IF price <= 0 THEN Sized(0)
       ELSE IF kw.ticker = None \/ S.current_mode = None THEN Sized(0)
       ELSE IF signal = 1
            THEN IF kw.ticker = S.bond_ticker THEN Target(Ratio(1, 1)) ELSE SellAll
       ELSE IF signal = 3
            THEN IF kw.ticker = S.stock_ticker1 THEN Target(S.stock1_pct)
                 ELSE IF kw.ticker = S.stock_ticker2 THEN Target(S.stock2_pct)
                 ELSE SellAll
       ELSE Sized(0)

\* MovingAverageShannonHybridStrategy.check_banding_rebalance: the cash
\* version rebalances whenever the stock ratio is above stock_pct, and below
\* it when the distance reaches band_threshold; the bond version is two-sided
MovingAverageShannonHybrid_check_banding_rebalance(S, portfolio_value, current_stock_value) ==
    IF portfolio_value = 0 THEN FALSE
    ELSE IF ~S.use_bond
    THEN IF current_stock_value * S.stock_pct.d > S.stock_pct.n * portfolio_value
         THEN TRUE
         ELSE (S.stock_pct.n * portfolio_value - current_stock_value * S.stock_pct.d)
                  * S.band_threshold.d
              >= S.band_threshold.n * S.stock_pct.d * portfolio_value
    ELSE Abs(current_stock_value * S.stock_pct.d - S.stock_pct.n * portfolio_value)
             * S.band_threshold.d
         >= S.band_threshold.n * S.stock_pct.d * portfolio_value

\* `if quantity_diff > 0: ... if available_cash < required_cash: quantity_diff
\* = min(quantity_diff, int(available_cash / (price * (1 + commission_rate))))`
CashLimited(quantity_diff, price, kw) ==
    IF quantity_diff > 0
          /\ kw.cash < quantity_diff * price * (Scale + kw.commission_rate)
    THEN Min(quantity_diff, kw.cash \div (price * (Scale + kw.commission_rate)))
    ELSE quantity_diff

\* MovingAverageShannonHybridStrategy._calculate_stock_position_size
MovingAverageShannonHybrid_calculate_stock_position_size(S, portfolio_value, price, signal, kw) ==
    LET pct == S.stock_pct
        current_stock_value == kw.current_quantity * price * Scale
        target_quantity == (portfolio_value * pct.n) \div (pct.d * price * Scale)
    IN IF signal = 1
       THEN IF kw.mode = "ABOVE"
            THEN IF price = 0 THEN SizingRaises(portfolio_value)
                 ELSE Sized((portfolio_value * (Scale - kw.commission_rate))
                               \div (Scale * price * Scale) - kw.current_quantity)
            ELSE IF price = 0 THEN SizingRaises(portfolio_value * pct.n)
                 ELSE Sized(CashLimited(
                          (portfolio_value * pct.n * (Scale - kw.commission_rate))
                              \div (pct.d * Scale * price * Scale)
                          - kw.current_quantity, price, kw))
       ELSE IF signal = 3
       THEN IF kw.mode # "BELOW" THEN Sized(0)
            ELSE IF ~S.use_bond /\ portfolio_value > 0
                    /\ current_stock_value * pct.d > pct.n * portfolio_value
            THEN Sized(Min(target_quantity - kw.current_quantity, 0))
            ELSE IF MovingAverageShannonHybrid_check_banding_rebalance(S,
                        portfolio_value, current_stock_value)
            THEN IF price = 0 THEN SizingRaises(portfolio_value * pct.n)
                 ELSE Sized(CashLimited(target_quantity - kw.current_quantity,
                                        price, kw))
            ELSE Sized(0)
       ELSE Sized(0)

\* MovingAverageShannonHybridStrategy._calculate_bond_position_size
MovingAverageShannonHybrid_calculate_bond_position_size(S, portfolio_value, price, signal, kw) ==
    LET pct == Ratio(S.stock_pct.d - S.stock_pct.n, S.stock_pct.d)
    IN IF signal = 1
       THEN IF kw.mode = "ABOVE" THEN Sized(0 - kw.current_quantity)
            ELSE IF price = 0 THEN SizingRaises(portfolio_value * pct.n)
            ELSE Sized((portfolio_value * pct.n * (Scale - kw.commission_rate))
                          \div (pct.d * Scale * price * Scale) - kw.current_quantity)
       ELSE IF signal = 3
       THEN IF kw.mode # "BELOW" THEN Sized(0)
            ELSE IF portfolio_value > 0
                    /\ Abs(kw.current_stock_value * S.stock_pct.d
                              - S.stock_pct.n * portfolio_value) * S.band_threshold.d
                       >= S.band_threshold.n * S.stock_pct.d * portfolio_value
            THEN IF price = 0 THEN SizingRaises(portfolio_value * pct.n)
                 ELSE Sized((portfolio_value * pct.n) \div (pct.d * price * Scale)
                            - kw.current_quantity)
            ELSE Sized(0)
       ELSE Sized(0)

\* MovingAverageShannonHybridStrategy.calculate_position_size
MovingAverageShannonHybrid_calculate_position_size(S, portfolio_value, price, signal, kw) ==
    IF signal = 0 THEN Sized(0)
    ELSE IF kw.ticker = S.stock_ticker
    THEN MovingAverageShannonHybrid_calculate_stock_position_size(S, portfolio_value,
             price, signal, kw)
    ELSE IF S.use_bond /\ kw.ticker = S.bond_ticker
    THEN MovingAverageShannonHybrid_calculate_bond_position_size(S, portfolio_value,
             price, signal, kw)
    ELSE Sized(0)

\* MovingAverageShannonHybrid2Strategy.check_banding_rebalance:
\* current_stock_pct - stock_pct <= -band_threshold
MovingAverageShannonHybrid2_check_banding_rebalance(S, portfolio_value, current_stock_value) ==
    IF portfolio_value = 0 THEN FALSE
    ELSE (S.stock_pct.n * portfolio_value - current_stock_value * S.stock_pct.d)
             * S.band_threshold.d
         >= S.band_threshold.n * S.stock_pct.d * portfolio_value

\* `if quantity_diff < 0: return 0`
NoSale(quantity_diff) == IF quantity_diff < 0 THEN 0 ELSE quantity_diff

\* a stock sizing without the ratchet: that of the first hybrid variant
StockSizeWithoutRatchet(S, portfolio_value, price, signal, kw) ==
    MovingAverageShannonHybrid_calculate_stock_position_size(S, portfolio_value,
        price, signal, kw)

\* MovingAverageShannonHybrid2Strategy._calculate_stock_position_size
MovingAverageShannonHybrid2_calculate_stock_position_size(S, portfolio_value, price, signal, kw) ==
    IF signal = 1
    THEN IF kw.mode = "ABOVE"
         THEN IF price = 0 THEN SizingRaises(portfolio_value)
              ELSE Sized(NoSale((portfolio_value * (Scale - kw.commission_rate))
                                   \div (Scale * price * Scale) - kw.current_quantity))
         ELSE IF price = 0 THEN SizingRaises(portfolio_value * S.stock_pct.n)
              ELSE Sized(CashLimited(NoSale(
                       (portfolio_value * S.stock_pct.n * (Scale - kw.commission_rate))
                           \div (S.stock_pct.d * Scale * price * Scale)
                       - kw.current_quantity), price, kw))
    ELSE IF signal = 3
    THEN IF kw.mode # "BELOW" THEN Sized(0)
         ELSE IF MovingAverageShannonHybrid2_check_banding_rebalance(S,
                     portfolio_value, kw.current_quantity * price * Scale)
         THEN IF price = 0 THEN SizingRaises(portfolio_value * S.stock_pct.n)
              ELSE Sized(CashLimited(NoSale(
                       (portfolio_value * S.stock_pct.n)
                           \div (S.stock_pct.d * price * Scale)
                       - kw.current_quantity), price, kw))
         ELSE Sized(0)
    ELSE Sized(0)

\* MovingAverageShannonHybrid2Strategy._calculate_bond_position_size
MovingAverageShannonHybrid2_calculate_bond_position_size(S, portfolio_value, price, signal, kw) ==
    IF signal = 1
    THEN IF kw.mode = "ABOVE" THEN Sized(0 - kw.current_quantity)
         ELSE IF price = 0
         THEN SizingRaises(portfolio_value * (S.stock_pct.d - S.stock_pct.n))
         ELSE Sized((portfolio_value * (S.stock_pct.d - S.stock_pct.n)
                        * (Scale - kw.commission_rate))
                       \div (S.stock_pct.d * Scale * price * Scale)
                    - kw.current_quantity)
    ELSE IF signal = 3
    THEN IF kw.mode # "BELOW" THEN Sized(0)
         ELSE IF IF portfolio_value > 0
                 THEN MovingAverageShannonHybrid2_check_banding_rebalance(S,
                          portfolio_value, kw.current_stock_value)
                 ELSE S.stock_pct.n * S.band_threshold.d
                          >= S.band_threshold.n * S.stock_pct.d
         THEN IF price = 0
              THEN SizingRaises(portfolio_value * (S.stock_pct.d - S.stock_pct.n))
              ELSE Sized((portfolio_value * (S.stock_pct.d - S.stock_pct.n))
                            \div (S.stock_pct.d * price * Scale)
                         - kw.current_quantity)
         ELSE Sized(0)
    ELSE Sized(0)

\* MovingAverageShannonHybrid2Strategy.calculate_position_size
MovingAverageShannonHybrid2_calculate_position_size(S, portfolio_value, price, signal, kw) ==
    IF signal = 0 THEN Sized(0)
    ELSE IF kw.ticker = S.stock_ticker
    THEN MovingAverageShannonHybrid2_calculate_stock_position_size(S, portfolio_value,
             price, signal, kw)
    ELSE IF kw.ticker = S.bond_ticker
    THEN MovingAverageShannonHybrid2_calculate_bond_position_size(S, portfolio_value,
             price, signal, kw)
    ELSE Sized(0)

\* strategy.calculate_position_size(portfolio_value, price, signal, **kwargs)
calculate_position_size(S, portfolio_value, price, signal, kw) ==
    CASE S.cls = "BuyHold" ->
           BuyHold_calculate_position_size(S, portfolio_value, price, signal, kw)
      [] S.cls = "Shannon" ->
           Shannon_calculate_position_size(S, portfolio_value, price, signal, kw)
      [] S.cls = "MovingAverage" ->
           MovingAverage_calculate_position_size(S, portfolio_value, price, signal, kw)
      [] S.cls = "MovingAverageRebalance" ->
           MovingAverageRebalance_calculate_position_size(S, portfolio_value, price, signal, kw)
      [] S.cls = "MovingAverageShannonHybrid" ->
           MovingAverageShannonHybrid_calculate_position_size(S, portfolio_value, price, signal, kw)
      [] S.cls = "MovingAverageShannonHybrid2" ->
           MovingAverageShannonHybrid2_calculate_position_size(S, portfolio_value, price, signal, kw)

(***************************************************************************)
(* Engines (src/backtest/simple_engine.py, multi_asset_engine.py)          *)
(***************************************************************************)
DEFAULT_INITIAL_CASH == 100000 * Scale
DEFAULT_COMMISSION == 1

\* a constructor that takes its arguments as they are given
EngineAsGiven(kind, tickers, initial_cash, commission_rate, monthly_addition) ==
    [kind |-> kind, tickers |-> tickers, initial_cash |-> initial_cash,
     commission_rate |-> commission_rate, monthly_addition |-> monthly_addition,
     last_month |-> 0, results |-> << >>]

\* SimpleBacktestEngine.__init__ / MultiAssetBacktestEngine.__init__ without
\* the ledger they create: `x or default` replaces a zero argument
BacktestEngine(kind, tickers, initial_cash, commission_rate, monthly_addition) ==
    [kind             |-> kind,
     tickers          |-> tickers,
     initial_cash     |-> IF initial_cash = 0 THEN DEFAULT_INITIAL_CASH
                          ELSE initial_cash,
     commission_rate  |-> IF commission_rate = 0 THEN DEFAULT_COMMISSION
                          ELSE commission_rate,
     monthly_addition |-> monthly_addition,
     last_month       |-> 0,
     results          |-> << >>]

\* the ledger the constructor creates
EnginePortfolio(E) == NewPortfolio(E.initial_cash, E.commission_rate)

\* ---- data frames ----
NoBar == 0 - 1
Bar(date, close) ==
    [date |-> date, Close |-> close, Dividends |-> 0, Signal |-> 0,
     TargetTicker |-> None, Mode |-> None]
\* the frame of a price series: one row for each date that has a bar
DataFrame(columns_ok, dates, series) ==
    [columns_ok |-> columns_ok,
     rows |-> SelectSeq([d \in 1..Len(dates) |-> Bar(dates[d], series[dates[d]])],
                        LAMBDA r : r.Close # NoBar)]
\* `date in df.index` and `df.loc[date]`
HasBar(df, date) == \E i \in 1..Len(df.rows) : df.rows[i].date = date
RowAt(df, date) == df.rows[CHOOSE i \in 1..Len(df.rows) : df.rows[i].date = date]
\* data[data.index >= start_date], data[data.index <= end_date]
FilterDates(df, start_date, end_date) ==
    [df EXCEPT !.rows =
        SelectSeq(@, LAMBDA r : /\ (start_date = NoDate \/ r.date >= start_date)
                                /\ (end_date = NoDate \/ r.date <= end_date))]
\* sorted(set(dates))
RECURSIVE Sorted(_)
Sorted(S) ==
    IF S = {} THEN << >>
    ELSE LET m == CHOOSE x \in S : \A y \in S : x <= y
         IN <<m>> \o Sorted(S \ {m})

\* ---- the body of one loop iteration ----
\* A day is computed on a context: the ledger P and the strategy S as the day
\* has left them so far, the orders attempted, and the exception that has
\* escaped (after which nothing more of the day happens).
Context(P, S, log) ==
    [P |-> P, S |-> S, log |-> log, raised |-> None, skipped |-> FALSE,
     mode |-> None]

\* the iteration once the Mode column of the base ticker's row has been read
\* (`current_mode`)
WithMode(X, row) == [X EXCEPT !.mode = row.Mode]

\* `mode=current_mode if current_mode else getattr(self.strategy,
\* 'current_mode', None)` of the two-asset branch
ModeKwargs(X, kw) ==
    [kw EXCEPT !.mode = IF X.mode # None THEN X.mode ELSE X.S.current_mode]

\* `except Exception as e: logger.warning(...)`: what leaves the handler
Caught(err) == None

\* `try: portfolio.buy/sell(...) except Exception: ...` of the engines
Order(X, action, ticker, quantity, price, date) ==
    IF X.raised # None \/ X.skipped THEN X
    ELSE LET r == IF action = "BUY" THEN buy(X.P, ticker, quantity, TRUE, price, date, FALSE)
                  ELSE sell(X.P, ticker, quantity, price, date, TRUE)
         IN [X EXCEPT
               !.P      = r.P,
               !.raised = Caught(r.err),
               !.log    = Append(@, [date |-> date, ticker |-> ticker,
                                     action |-> action, quantity |-> quantity,
                                     err |-> r.err, changed |-> r.P # X.P])]

\* the order a sizing result leads to: `if quantity > 0: buy ... elif
\* quantity < 0: sell abs(quantity)`; an exception of the sizing call escapes
Raise(X, exc) == [X EXCEPT !.raised = exc]
Trade(X, z, ticker, price, date) ==
    IF X.raised # None \/ X.skipped THEN X
    ELSE IF z.exc # None THEN Raise(X, z.exc)
    ELSE IF z.q > 0 THEN Order(X, "BUY", ticker, z.q, price, date)
    ELSE IF z.q < 0 THEN Order(X, "SELL", ticker, 0 - z.q, price, date)
    ELSE X
BuyOnly(X, z, ticker, price, date) ==
    IF X.raised # None \/ X.skipped THEN X
    ELSE IF z.exc # None THEN Raise(X, z.exc)
    ELSE IF z.q > 0 THEN Order(X, "BUY", ticker, z.q, price, date)
    ELSE X
SellOnly(X, z, ticker, price, date) ==
    IF X.raised # None \/ X.skipped THEN X
    ELSE IF z.exc # None THEN Raise(X, z.exc)
    ELSE IF z.q < 0 THEN Order(X, "SELL", ticker, 0 - z.q, price, date)
    ELSE X

\* ---- SimpleBacktestEngine.run: one iteration of the loop over the rows ----
SimplePrice(X, ticker, row) ==
    IF ticker \in DOMAIN X.P.positions
    THEN [X EXCEPT !.P = update_price(@, ticker, row.Close)] ELSE X

\* `if signal != 0`: the sizing call, which stands outside the try blocks, and
\* the order it leads to
SimpleTrade(X, E, ticker, row) ==
    IF row.Signal # 0
    THEN Trade(X, calculate_position_size(X.S, total_value(X.P), row.Close,
                      row.Signal,
                      [Kwargs(quantity_of(X.P, ticker), X.P.cash, 0, 0,
                              E.commission_rate, ticker) EXCEPT !.mode = row.Mode]),
               ticker, row.Close, row.date)
    ELSE X

SimpleSnapshot(X, row) ==
    IF X.raised # None THEN X ELSE [X EXCEPT !.P = snapshot(@, row.date)]

SimpleDay(E, X, row) ==
    SimpleSnapshot(SimpleTrade(SimplePrice(X, E.tickers[1], row), E, E.tickers[1], row),
                   row)

(***************************************************************************)
(* MultiAssetBacktestEngine.run: one iteration of the loop over the dates.  *)
(* The branches modelled are those the strategies of this model take: the   *)
(* Shannon branch, the MovingAverageRebalance branch and the branch of a    *)
(* target ticker.  The branches of the other strategy classes and the       *)
(* per-ticker loop for a strategy without stock_ticker and base_ticker are  *)
(* not modelled.                                                            *)
(***************************************************************************)
\* calendar days in a month of the model's calendar
DaysPerMonth == 2
\* date.strftime('%Y-%m'), months counted from 1 (last_month None is 0)
Month(date) == (date - 1) \div DaysPerMonth + 1

\* an addition made on every date
AdditionEveryDay(E, P, date) ==
    [E |-> [E EXCEPT !.last_month = Month(date)],
     P |-> [P EXCEPT !.cash = @ + E.monthly_addition]]
\* the monthly addition at the head of the iteration
MonthlyAddition(E, P, date) ==
    IF E.monthly_addition > 0 /\ E.last_month # Month(date)
    THEN [E |-> [E EXCEPT !.last_month = Month(date)],
          P |-> [P EXCEPT !.cash = @ + E.monthly_addition]]
    ELSE [E |-> E, P |-> P]

TickerSet(E) == {E.tickers[i] : i \in 1..Len(E.tickers)}

\* the `prices` dict of the day: the Close of every engine ticker that has a
\* bar that date, and of the strategy's base ticker
Prices(E, D, base, date) ==
    LET priced == {t \in (TickerSet(E) \cup {base}) \cap DOMAIN D : HasBar(D[t], date)}
    IN [t \in priced |-> RowAt(D[t], date).Close]

\* a loop that updates the prices and pays no dividend
RECURSIVE UpdatePricesOnly(_, _, _, _, _)
UpdatePricesOnly(P, E, D, date, i) ==
    IF i > Len(E.tickers) THEN P
    ELSE UpdatePricesOnly(
             IF E.tickers[i] \in DOMAIN D
             THEN IF HasBar(D[E.tickers[i]], date)
                  THEN update_price(P, E.tickers[i], RowAt(D[E.tickers[i]], date).Close)
                  ELSE P
             ELSE P,
             E, D, date, i + 1)

\* price update and dividend of every held ticker that has a bar that date
RECURSIVE UpdatePrices(_, _, _, _, _)
UpdatePrices(P, E, D, date, i) ==
    IF i > Len(E.tickers) THEN P
    ELSE LET t == E.tickers[i]
         IN IF t \in DOMAIN D /\ HasBar(D[t], date) /\ t \in DOMAIN P.positions
            THEN LET row == RowAt(D[t], date)
                     P1  == update_price(P, t, row.Close)
                 IN UpdatePrices(IF row.Dividends > 0
                                 THEN receive_dividend(P1, t, row.Dividends, date)
                                 ELSE P1,
                                 E, D, date, i + 1)
            ELSE UpdatePrices(P, E, D, date, i + 1)

\* quantity * prices[ticker] of a held and priced ticker, else 0
ValueOf(P, prices, t) ==
    IF t \in DOMAIN P.positions /\ t \in DOMAIN prices
    THEN P.positions[t].quantity * prices[t] * Scale ELSE 0

\* `for ticker, qty, price in sell_orders` / `in buy_orders`: the orders of one
\* side, in the order they were sized
RECURSIVE ExecuteOrders(_, _, _, _, _)
ExecuteOrders(X, orders, action, date, i) ==
    IF i > Len(orders) THEN X
    ELSE LET o == orders[i]
             side == IF o.z.q > 0 THEN "BUY" ELSE IF o.z.q < 0 THEN "SELL" ELSE None
         IN ExecuteOrders(IF side = action
                          THEN Order(X, action, o.ticker, Abs(o.z.q), o.price, date)
                          ELSE X,
                          orders, action, date, i + 1)

\* ---- the Shannon branch (strategy with stock_ticker and use_bond, without
\* stock_ticker1): initial entry, or sizing of both tickers and then all sells
\* before all buys.  The stock and bond tickers explored are distinct, so
\* processed_tickers never filters a ticker out. ----
HasBond(S) == S.use_bond /\ S.bond_ticker # None
PriceOf(prices, t) == IF t \in DOMAIN prices THEN prices[t] ELSE 0

\* initial entry, stock: bought when it has a positive price
ShannonStockEntry(X, E, prices, date, stock_signal) ==
    IF PriceOf(prices, X.S.stock_ticker) > 0
    THEN BuyOnly(X, calculate_position_size(X.S, total_value(X.P),
                        prices[X.S.stock_ticker], stock_signal,
                        ModeKwargs(X, Kwargs(0, X.P.cash, 0, 0, E.commission_rate,
                                             X.S.stock_ticker))),
                 X.S.stock_ticker, prices[X.S.stock_ticker], date)
    ELSE X

\* initial entry, bond: sized on the portfolio value after the stock purchase
ShannonBondEntry(X, E, prices, date, stock_signal, stock_value) ==
    IF HasBond(X.S) /\ PriceOf(prices, X.S.bond_ticker) > 0
    THEN BuyOnly(X, calculate_position_size(X.S, total_value(X.P),
                        prices[X.S.bond_ticker], stock_signal,
                        ModeKwargs(X, Kwargs(0, X.P.cash, 0, stock_value,
                                             E.commission_rate, X.S.bond_ticker))),
                 X.S.bond_ticker, prices[X.S.bond_ticker], date)
    ELSE X

\* rebalancing: the sizing of every priced ticker of the pair, in order
ShannonOrders(X, E, prices, stock_signal, stock_value, bond_value) ==
    LET todo == SelectSeq(IF HasBond(X.S) THEN <<X.S.stock_ticker, X.S.bond_ticker>>
                          ELSE <<X.S.stock_ticker>>,
                          LAMBDA t : t \in DOMAIN prices)
    IN [i \in 1..Len(todo) |->
          [ticker |-> todo[i], price |-> prices[todo[i]],
           z |-> calculate_position_size(X.S, total_value(X.P), prices[todo[i]],
                    stock_signal,
                    ModeKwargs(X, Kwargs(quantity_of(X.P, todo[i]), X.P.cash,
                           IF X.S.use_bond THEN bond_value ELSE X.P.cash,
                           stock_value, E.commission_rate, todo[i])))]]

\* rebalancing: the first exception of a sizing call escapes; else all sells,
\* then all buys
ShannonRebalance(X, orders, date) ==
    LET failing == {i \in 1..Len(orders) : orders[i].z.exc # None}
    IN IF failing # {}
       THEN Raise(X, orders[CHOOSE i \in failing : \A j \in failing : i <= j].z.exc)
       ELSE ExecuteOrders(ExecuteOrders(X, orders, "SELL", date, 1),
                          orders, "BUY", date, 1)

ShannonPath(X, E, prices, date, stock_signal) ==
    LET stock_quantity == quantity_of(X.P, X.S.stock_ticker)
        stock_value == stock_quantity * PriceOf(prices, X.S.stock_ticker) * Scale
        bond_quantity == IF HasBond(X.S) THEN quantity_of(X.P, X.S.bond_ticker) ELSE 0
        bond_value == IF HasBond(X.S)
                      THEN bond_quantity * PriceOf(prices, X.S.bond_ticker) * Scale
                      ELSE X.P.cash
    IN IF stock_signal \notin {1, 3} THEN X
       ELSE IF stock_quantity = 0 /\ bond_quantity = 0
       THEN ShannonBondEntry(ShannonStockEntry(X, E, prices, date, stock_signal),
                             E, prices, date, stock_signal, stock_value)
       ELSE ShannonRebalance(X, ShannonOrders(X, E, prices, stock_signal,
                                              stock_value, bond_value), date)

\* ---- the MovingAverageRebalance branch (Signal 3, TargetTicker "ABOVE") ----
\* `stockN_price` of the branch: a price is read only for a ticker that is held
HeldPrice(P, prices, t) ==
    IF t \in DOMAIN P.positions /\ t \in DOMAIN prices THEN prices[t] ELSE 0

\* initial entry: the purchase of stock_ticker1 or stock_ticker2, made when
\* the price read for it is positive
RebalanceEntry(X, E, prices, date, ticker, price) ==
    IF ticker \in DOMAIN prices /\ price > 0
    THEN BuyOnly(X, calculate_position_size(X.S, total_value(X.P), price, 3,
                        Kwargs(0, X.P.cash, 0, 0, E.commission_rate, ticker)),
                 ticker, price, date)
    ELSE X

\* banding check: the ticker further from its target is sized and traded; a
\* price <= 0 of that ticker ends the iteration (`continue`)
RebalanceBanding(X, E, prices, date, rebalance_ticker) ==
    IF rebalance_ticker # None /\ rebalance_ticker \in DOMAIN prices
    THEN IF prices[rebalance_ticker] <= 0
         THEN [X EXCEPT !.skipped = TRUE]
         ELSE Trade(X, calculate_position_size(X.S, total_value(X.P),
                           prices[rebalance_ticker], 3,
                           Kwargs(quantity_of(X.P, rebalance_ticker), X.P.cash,
                                  0, 0, E.commission_rate, rebalance_ticker)),
                    rebalance_ticker, prices[rebalance_ticker], date)
    ELSE X

\* the sale of the whole bond position, when it is held and priced
SellBond(X, prices, date) ==
    IF X.S.bond_ticker \in DOMAIN X.P.positions /\ X.S.bond_ticker \in DOMAIN prices
    THEN IF quantity_of(X.P, X.S.bond_ticker) > 0
         THEN Order(X, "SELL", X.S.bond_ticker, quantity_of(X.P, X.S.bond_ticker),
                    prices[X.S.bond_ticker], date)
         ELSE X
    ELSE X

MovingAverageRebalancePath(X, E, prices, date) ==
    IF quantity_of(X.P, X.S.stock_ticker1) = 0 /\ quantity_of(X.P, X.S.stock_ticker2) = 0
    THEN SellBond(
           SellBond(
             RebalanceEntry(
               RebalanceEntry(X, E, prices, date, X.S.stock_ticker1,
                              HeldPrice(X.P, prices, X.S.stock_ticker1)),
               E, prices, date, X.S.stock_ticker2,
               HeldPrice(X.P, prices, X.S.stock_ticker2)),
             prices, date),
           prices, date)
    ELSE SellBond(
           RebalanceBanding(X, E, prices, date,
               MovingAverageRebalance_check_banding_rebalance(X.S, total_value(X.P),
                   ValueOf(X.P, prices, X.S.stock_ticker1),
                   ValueOf(X.P, prices, X.S.stock_ticker2))),
           prices, date)

\* ---- the branch of a target ticker other than "ABOVE" ----
\* Step 1: every other held and priced ticker is sized with signal 1 and sold
RECURSIVE SellOthers(_, _, _, _, _, _, _)
SellOthers(X, E, prices, date, target_ticker, portfolio_value, i) ==
    IF i > Len(E.tickers) THEN X
    ELSE SellOthers(
           IF /\ E.tickers[i] \in DOMAIN prices
              /\ E.tickers[i] # target_ticker
              /\ quantity_of(X.P, E.tickers[i]) > 0
           THEN SellOnly(X, calculate_position_size(X.S, portfolio_value,
                               prices[E.tickers[i]], 1,
                               Kwargs(quantity_of(X.P, E.tickers[i]), X.P.cash,
                                      ValueOf(X.P, prices, X.S.bond_ticker),
                                      ValueOf(X.P, prices, X.S.stock_ticker),
                                      E.commission_rate, E.tickers[i])),
                         E.tickers[i], prices[E.tickers[i]], date)
           ELSE X,
           E, prices, date, target_ticker, portfolio_value, i + 1)

\* Step 3: the target is sized on the portfolio value after the sales and bought
BuyTarget(X, E, prices, date, target_ticker) ==
    IF target_ticker \in DOMAIN prices
    THEN BuyOnly(X, calculate_position_size(X.S, total_value(X.P),
                        prices[target_ticker], 1,
                        Kwargs(quantity_of(X.P, target_ticker), X.P.cash,
                               ValueOf(X.P, prices, X.S.bond_ticker),
                               ValueOf(X.P, prices, X.S.stock_ticker),
                               E.commission_rate, target_ticker)),
                 target_ticker, prices[target_ticker], date)
    ELSE X

\* current_holding is put back when it was set before the switch
RestoreHolding(X, original_holding) ==
    IF X.raised # None THEN X
    ELSE IF original_holding # None
         THEN [X EXCEPT !.S.current_holding = original_holding]
    ELSE X

\* the engine overwrites strategy.current_holding with the target, sells the
\* others, buys the target and restores current_holding
SwitchPath(X, E, prices, date, target_ticker) ==
    RestoreHolding(
        BuyTarget(
            SellOthers([X EXCEPT !.S.current_holding = target_ticker], E, prices,
                       date, target_ticker, total_value(X.P), 1),
            E, prices, date, target_ticker),
        X.S.current_holding)

\* the ticker whose row carries the signal: base_ticker, else stock_ticker
BaseTicker(S) == IF HasAttr(S, "base_ticker") THEN S.base_ticker ELSE S.stock_ticker

\* the row of the base ticker for the date, a row without signal when it has no bar
BaseRow(S, D, date) ==
    IF BaseTicker(S) \in DOMAIN D
    THEN IF HasBar(D[BaseTicker(S)], date) THEN RowAt(D[BaseTicker(S)], date)
         ELSE Bar(date, NoBar)
    ELSE Bar(date, NoBar)

\* the target ticker of the day: the TargetTicker column, else current_holding
TargetOf(S, row) ==
    IF row.TargetTicker = None THEN S.current_holding ELSE row.TargetTicker

\* the branch of the `if / elif` chain the day takes
PathOf(S, D, date) ==
    LET row == BaseRow(S, D, date)
    IN IF row.Signal = 0 THEN "hold"
       ELSE IF HasAttr(S, "use_bond") /\ ~HasAttr(S, "stock_ticker1") THEN "shannon"
       ELSE IF HasAttr(S, "stock_ticker1") /\ row.Signal = 3
                /\ TargetOf(S, row) = "ABOVE" THEN "rebalance"
       ELSE IF TargetOf(S, row) \notin {None, "ABOVE"} THEN "switch"
       ELSE "hold"

\* the head of an iteration: monthly addition, the prices of the day, price
\* updates and dividends, and the row of the base ticker
DayHead(E, P, S, D, date) ==
    LET added == MonthlyAddition(E, P, date)
    IN [E      |-> added.E,
        P      |-> UpdatePrices(added.P, added.E, D, date, 1),
        prices |-> Prices(added.E, D, BaseTicker(S), date),
        row    |-> BaseRow(S, D, date)]

(***************************************************************************)
(* Performance metrics (src/utils/metrics.py) and the engines' summary.    *)
(* A Series is a sequence of records [date, value], the dates being its    *)
(* index; a percentage is an exact rational [n, d] with d > 0.  The values *)
(* explored are positive, so no quotient is NaN.                           *)
(***************************************************************************)
Max(a, b) == IF a > b THEN a ELSE b
\* n1/d1 < n2/d2 for positive denominators, by whole parts and then the
\* remainders' reciprocals (exact, and free of the products' overflow)
RECURSIVE LessRatio(_, _, _, _)
LessRatio(n1, d1, n2, d2) ==
    IF n1 \div d1 # n2 \div d2 THEN n1 \div d1 < n2 \div d2
    ELSE IF n1 % d1 = 0 THEN n2 % d2 > 0
    ELSE IF n2 % d2 = 0 THEN FALSE
    ELSE LessRatio(d2, n2 % d2, d1, n1 % d1)
FracLess(a, b) == LessRatio(a.n, a.d, b.n, b.d)
FracEqual(a, b) == Frac(a.n, a.d) = Frac(b.n, b.d)

\* values.expanding().max() at position i
RECURSIVE CumulativeMax(_, _)
CumulativeMax(values, i) ==
    IF i = 1 THEN values[1].value
    ELSE Max(CumulativeMax(values, i - 1), values[i].value)

\* ((values - cumulative_max) / cumulative_max) * 100 at position i (the float,
\* kept as an exact fraction in lowest terms)
Drawdown(values, i) ==
    Frac((values[i].value - CumulativeMax(values, i)) * 100, CumulativeMax(values, i))

\* drawdown.idxmin() over the first i positions: the first minimum
RECURSIVE IdxMin(_, _)
IdxMinStep(values, i, best) ==
    IF FracLess(Drawdown(values, i), Drawdown(values, best)) THEN i ELSE best
IdxMin(values, i) ==
    IF i = 1 THEN 1 ELSE IdxMinStep(values, i, IdxMin(values, i - 1))

\* cumulative_max.iloc[:i].idxmax(): the first maximum
RECURSIVE IdxMaxCumulative(_, _)
IdxMaxStep(values, i, best) ==
    IF CumulativeMax(values, i) > CumulativeMax(values, best) THEN i ELSE best
IdxMaxCumulative(values, i) ==
    IF i = 1 THEN 1 ELSE IdxMaxStep(values, i, IdxMaxCumulative(values, i - 1))

\* future_values[future_values >= peak_value].index[0] of the slice that
\* starts at position i (0: the mask is nowhere true)
RECURSIVE FirstAtLeast(_, _, _)
FirstAtLeast(values, i, peak_value) ==
    IF i > Len(values) THEN 0
    ELSE IF values[i].value >= peak_value THEN i
    ELSE FirstAtLeast(values, i + 1, peak_value)

DateAt(values, i) == IF i = 0 THEN NoDate ELSE values[i].date

\* the dict calculate_max_drawdown returns for a trough and a peak position
MaxDrawdownInfo(values, max_dd_position, peak_position) ==
    [mdd           |-> Drawdown(values, max_dd_position),
     mdd_start     |-> values[peak_position].date,
     mdd_end       |-> values[max_dd_position].date,
     peak_value    |-> values[peak_position].value,
     trough_value  |-> values[max_dd_position].value,
     recovery_date |-> IF max_dd_position < Len(values)
                       THEN DateAt(values, FirstAtLeast(values, max_dd_position,
                                                        values[peak_position].value))
                       ELSE NoDate]

MaxDrawdownAt(values, max_dd_position) ==
    MaxDrawdownInfo(values, max_dd_position,
                    IdxMaxCumulative(values, max_dd_position))

\* the dict returned for a series of fewer than two values
ShortSeriesInfo(values) ==
    [mdd           |-> Ratio(0, 1),
     mdd_start     |-> NoDate,
     mdd_end       |-> NoDate,
     peak_value    |-> IF Len(values) > 0 THEN values[1].value ELSE 0,
     trough_value  |-> IF Len(values) > 0 THEN values[1].value ELSE 0,
     recovery_date |-> NoDate]

\* a drawdown measured at the last value of the series
MaxDrawdownOfLast(values) ==
    IF Len(values) < 2 THEN ShortSeriesInfo(values)
    ELSE MaxDrawdownAt(values, Len(values))

\* calculate_max_drawdown(values)
calculate_max_drawdown(values) ==
    IF Len(values) < 2 THEN ShortSeriesInfo(values)
    ELSE MaxDrawdownAt(values, IdxMin(values, Len(values)))

\* calculate_recovery_days(values): (recovery_date - mdd_end).days, or None
\* (NoDays)
NoDays == 0 - 1
RecoveryDaysOf(mdd_info) ==
    IF mdd_info.recovery_date = NoDate \/ mdd_info.mdd_end = NoDate THEN NoDays
    ELSE mdd_info.recovery_date - mdd_info.mdd_end
calculate_recovery_days(values) == RecoveryDaysOf(calculate_max_drawdown(values))

\* equity_curve["total_value"] of the frame an engine keeps in results
TotalValues(results) ==
    [i \in 1..Len(results) |->
        [date |-> results[i].date, value |-> results[i].total_value]]

\* Portfolio.total_profit_loss_pct
total_profit_loss_pct(P) ==
    IF P.initial_cash = 0 THEN Ratio(0, 1)
    ELSE Ratio((total_value(P) - P.initial_cash) * 100, P.initial_cash)

\* get_summary() of both engines: the empty dict when results is empty, else
\* the dict of the figures (those the claims read)
get_summary(E, P) ==
    IF Len(E.results) = 0 THEN << >>
    ELSE [k \in {"Days", "Final Value", "Total Return", "Total Trades",
                 "Max Drawdown", "Recovery Days"} |->
            CASE k = "Days"          -> Len(E.results)
              [] k = "Final Value"   -> E.results[Len(E.results)].total_value
              [] k = "Total Return"  -> total_profit_loss_pct(P)
              [] k = "Total Trades"  -> Len(P.trades)
              [] k = "Max Drawdown"  ->
                   calculate_max_drawdown(TotalValues(E.results)).mdd
              [] k = "Recovery Days" ->
                   calculate_recovery_days(TotalValues(E.results))]

(***************************************************************************)
(* State                                                                   *)
(***************************************************************************)
VARIABLES
    portfolio,  \* the Portfolio object (of the engine, or used directly)
    last,       \* the last call made on the ledger directly: its arguments,
                \* the exception it raised and the ledger before the call
    engine,     \* the engine object: tickers, rates, last_month, results
    strategy,   \* the strategy object set on the engine (NoStrategy: none)
    data_dict,  \* the price frames: ticker -> DataFrame
    run,        \* the call of run() in progress or last made
    report      \* the last reporting call (get_summary, a metrics function)
                \* made since run() was last called: its input and what it
                \* returned

ledgerVars == <<portfolio, last>>
engineVars == <<engine, strategy, data_dict, run, report>>
vars == <<ledgerVars, engineVars>>

(***************************************************************************)
(* The run of an engine                                                    *)
(*   run.pc        INIT, RUNNING, DONE, or FAILED when run() has raised     *)
(*   run.raised    the exception that left run(), run.where the place       *)
(*   run.all_dates the calendar of the run, run.i the iterations done       *)
(*   run.frame     data_with_signals of the single-asset engine             *)
(*   run.log       the orders the engine has attempted in this run          *)
(*   run.pre       ledger, strategy, results and the frames the call sees   *)
(*                 when run() was called, and run.base the length of the    *)
(*                 equity curve at that time                                *)
(***************************************************************************)
\* number of dates of the price data, and of run() calls on one engine
MaxDays == 3
MaxRuns == 2

Dates == [d \in 1..MaxDays |-> d]
NoStrategy == BaseStrategy(None)
NoData == [t \in {} |-> DataFrame(TRUE, << >>, << >>)]
NoEngine == BacktestEngine("none", << >>, Scale, 1, 0)
Idle(P, S, E) ==
    [pc |-> "INIT", count |-> 0, start_date |-> NoDate, end_date |-> NoDate,
     all_dates |-> << >>, i |-> 0, frame |-> << >>, raised |-> None,
     where |-> None, log |-> << >>, base |-> 0,
     pre |-> [portfolio |-> P, strategy |-> S, results |-> E.results,
              data |-> NoData]]

\* run() is called: what every call starts from
Called(start_date, end_date, data) ==
    [run EXCEPT !.count = @ + 1, !.start_date = start_date, !.end_date = end_date,
                !.all_dates = << >>, !.i = 0, !.frame = << >>, !.raised = None,
                !.where = None, !.log = << >>,
                !.base = Len(portfolio.equity_curve),
                !.pre = [portfolio |-> portfolio, strategy |-> strategy,
                         results |-> engine.results, data |-> data]]
Failed(R, exc, where) == [R EXCEPT !.pc = "FAILED", !.raised = exc, !.where = where]


\* no reporting call has been made
NoReport == [op |-> "none", input |-> << >>, result |-> << >>]

NoCall ==
    [op |-> "init", ticker |-> None, quantity |-> 0, price |-> 0,
     is_int |-> TRUE, allow_fractional |-> FALSE, allow_partial |-> TRUE,
     err |-> None, before |-> portfolio, n |-> 0]


(***************************************************************************)
(* Specification Spec: a caller driving the ledger directly                *)
(***************************************************************************)
\* number of ledger calls explored
MaxOps == 3

Tickers == {"A", "B"}

\* (initial_cash, commission_rate) of the ledgers explored: the amounts of the
\* round-trip scenario, a rate above 100 %, and a small ledger without commission
LedgerConfigs ==
    { [cash |-> 100000 * Scale, rate |-> 1],
      [cash |-> 100000 * Scale, rate |-> 5000],
      [cash |-> 20000 * Scale,  rate |-> 0] }

\* the buys are made with a Python int and the default allow_fractional, as
\* the engines make them, or with the float 100.0 / 700.0 and either setting
BuyInputs ==
    { [ticker |-> "A", quantity |-> q, price |-> p, is_int |-> TRUE,
       allow_fractional |-> FALSE] : q \in {0, 100}, p \in {150, 165} }
    \cup { [ticker |-> "B", quantity |-> 100, price |-> 150, is_int |-> TRUE,
            allow_fractional |-> FALSE] }
    \cup { [ticker |-> "B", quantity |-> q, price |-> 150, is_int |-> FALSE,
            allow_fractional |-> af] : q \in {100, 700}, af \in BOOLEAN }

SellInputs ==
    { [ticker |-> "A", quantity |-> q, price |-> 165, allow_partial |-> ap] :
          q \in {0, 100, 150}, ap \in BOOLEAN }
    \cup { [ticker |-> "B", quantity |-> 100, price |-> 165, allow_partial |-> TRUE] }

DividendInputs ==
    { [ticker |-> "A", dividend_per_share |-> dv] : dv \in {0, 500} }
    \cup { [ticker |-> "B", dividend_per_share |-> 500] }

PriceInputs ==
    { [ticker |-> "A", price |-> p] : p \in {0, 165} }
    \cup { [ticker |-> "B", price |-> 165] }

\* calls made so far; the date handed to a call is the number of the call
OpCount == Len(portfolio.trades) + Len(portfolio.equity_curve)

Call(op, ticker, quantity, price, err) ==
    [op |-> op, ticker |-> ticker, quantity |-> quantity, price |-> price,
     is_int |-> TRUE, allow_fractional |-> FALSE, allow_partial |-> TRUE,
     err |-> err, before |-> portfolio, n |-> last.n + 1]

Init ==
    /\ \E cfg \in LedgerConfigs : portfolio = NewPortfolio(cfg.cash, cfg.rate)
    /\ last = NoCall
    /\ engine = NoEngine
    /\ strategy = NoStrategy
    /\ data_dict = NoData
    /\ run = Idle(portfolio, strategy, engine)
    /\ report = NoReport

DoBuy ==
    /\ last.n < MaxOps
    /\ UNCHANGED engineVars
    /\ \E in \in BuyInputs :
          LET r == buy(portfolio, in.ticker, in.quantity, in.is_int, in.price,
                       OpCount + 1, in.allow_fractional)
          IN /\ portfolio' = r.P
             /\ last' = [Call("buy", in.ticker, in.quantity, in.price, r.err)
                           EXCEPT !.is_int = in.is_int,
                                  !.allow_fractional = in.allow_fractional]

DoSell ==
    /\ last.n < MaxOps
    /\ UNCHANGED engineVars
    /\ \E in \in SellInputs :
          LET r == sell(portfolio, in.ticker, in.quantity, in.price, OpCount + 1,
                        in.allow_partial)
          IN /\ portfolio' = r.P
             /\ last' = [Call("sell", in.ticker, in.quantity, in.price, r.err)
                           EXCEPT !.allow_partial = in.allow_partial]

DoReceiveDividend ==
    /\ last.n < MaxOps
    /\ UNCHANGED engineVars
    /\ \E in \in DividendInputs :
          /\ portfolio' = receive_dividend(portfolio, in.ticker,
                                           in.dividend_per_share, OpCount + 1)
          /\ last' = Call("receive_dividend", in.ticker, 0, in.dividend_per_share, None)

DoUpdatePrice ==
    /\ last.n < MaxOps
    /\ UNCHANGED engineVars
    /\ \E in \in PriceInputs :
          /\ portfolio' = update_price(portfolio, in.ticker, in.price)
          /\ last' = Call("update_price", in.ticker, 0, in.price, None)

DoSnapshot ==
    /\ last.n < MaxOps
    /\ UNCHANGED engineVars
    /\ portfolio' = snapshot(portfolio, OpCount + 1)
    /\ last' = Call("snapshot", None, 0, 0, None)

Next == DoBuy \/ DoSell \/ DoReceiveDividend \/ DoUpdatePrice \/ DoSnapshot

Spec == Init /\ [][Next]_vars

(***************************************************************************)
(* The run of an engine: actions                                           *)
(***************************************************************************)
\* the arguments of run()
RunArgs ==
    {[start_date |-> s, end_date |-> e] : s \in {NoDate, 2, MaxDays + 1},
                                          e \in {NoDate, 2}}

\* the ledger a run works on: self.portfolio, which the constructor created,
\* as it stands when run() is called
FreshLedger(P, E) == EnginePortfolio(E)
LedgerOfRun(P, E) == P

CanRun(kind) ==
    /\ engine.kind = kind
    /\ run.pc \in {"INIT", "DONE", "FAILED"}
    /\ run.count < MaxRuns

\* ---- SimpleBacktestEngine.run ----
\* a check at the head of run() raises: nothing has been touched
SimpleRunFails(a, data) ==
    /\ run' = Failed(Called(a.start_date, a.end_date, data), "ValueError", "checks")
    /\ strategy' = strategy

\* the head of run(): the two checks, the date filter, reset, generate_signals
SimpleHead(a, data) ==
    IF strategy = NoStrategy
    THEN SimpleRunFails(a, data)
    ELSE IF ~validate_data(strategy, data[engine.tickers[1]])
    THEN SimpleRunFails(a, data)
    ELSE \E g \in {generate_signals(reset(strategy),
                        FilterDates(data[engine.tickers[1]], a.start_date,
                                    a.end_date))} :
            /\ strategy' = g.strategy
            /\ run' = IF g.err # None
                      THEN Failed(Called(a.start_date, a.end_date, data), g.err,
                                  "generate_signals")
                      ELSE [Called(a.start_date, a.end_date, data) EXCEPT
                               !.pc = "RUNNING", !.frame = g.df.rows,
                               !.all_dates = [i \in 1..Len(g.df.rows) |->
                                                 g.df.rows[i].date]]

\* run(data, start_date, end_date): the caller passes its frame, or the frame
\* without one of the required columns
SimpleRun ==
    /\ CanRun("simple")
    /\ \E a \in RunArgs, ok \in BOOLEAN :
         SimpleHead(a, [t \in DOMAIN data_dict |->
                           [data_dict[t] EXCEPT !.columns_ok = ok]])
    /\ report' = NoReport
    /\ portfolio' = LedgerOfRun(portfolio, engine)
    /\ UNCHANGED <<last, engine, data_dict>>

\* an end of iteration after which the loop goes on whatever has happened
EndOfDayGoingOn(X) ==
    /\ portfolio' = X.P
    /\ strategy' = X.S
    /\ run' = [run EXCEPT !.log = X.log, !.i = @ + 1]
    /\ UNCHANGED <<last, report, data_dict>>

\* the end of an iteration that has left the context X: an exception that
\* has escaped ends run(), else the loop goes on to the next date
EndOfDay(X) ==
    /\ portfolio' = X.P
    /\ strategy' = X.S
    /\ run' = IF X.raised # None
              THEN Failed([run EXCEPT !.log = X.log], X.raised, "loop")
              ELSE [run EXCEPT !.log = X.log, !.i = @ + 1]
    /\ UNCHANGED <<last, report, data_dict>>

\* one iteration of the loop
SimpleStep ==
    /\ engine.kind = "simple"
    /\ run.pc = "RUNNING"
    /\ run.i < Len(run.all_dates)
    /\ \E X \in {SimpleDay(engine, Context(portfolio, strategy, run.log),
                           run.frame[run.i + 1])} : EndOfDay(X)
    /\ UNCHANGED engine

\* the end of run(): results = DataFrame(portfolio.equity_curve)
SimpleFinish ==
    /\ engine.kind = "simple"
    /\ run.pc = "RUNNING"
    /\ run.i = Len(run.all_dates)
    /\ engine' = [engine EXCEPT !.results = portfolio.equity_curve]
    /\ run' = [run EXCEPT !.pc = "DONE"]
    /\ UNCHANGED <<portfolio, last, report, strategy, data_dict>>

\* ---- MultiAssetBacktestEngine.run ----
\* the union of the indexes of all frames, sorted, then the date filter
AllDates(D, start_date, end_date) ==
    Sorted({d \in UNION {{D[t].rows[i].date : i \in 1..Len(D[t].rows)} : t \in DOMAIN D} :
               /\ (start_date = NoDate \/ d >= start_date)
               /\ (end_date = NoDate \/ d <= end_date)})

\* the ticker roles the engine writes into the strategy after reset()
TickerRoles(E, S) ==
    LET S1 == IF HasAttr(S, "stock_ticker") /\ S.stock_ticker = None
                 /\ Len(E.tickers) >= 1
              THEN [S EXCEPT !.stock_ticker = E.tickers[1]] ELSE S
    IN IF HasAttr(S1, "bond_ticker") /\ Len(E.tickers) >= 2
          /\ S1.bond_ticker = None /\ S1.use_bond
       THEN [S1 EXCEPT !.bond_ticker = E.tickers[2]] ELSE S1

\* the head of run(): the two checks, the calendar, reset, the ticker roles
MultiRun ==
    /\ CanRun("multi")
    /\ \E a \in RunArgs :
         LET R == Called(a.start_date, a.end_date, data_dict)
         IN IF strategy = NoStrategy
            THEN run' = Failed(R, "ValueError", "checks") /\ strategy' = strategy
            ELSE IF DOMAIN data_dict = {}
            THEN run' = Failed(R, "ValueError", "checks") /\ strategy' = strategy
            ELSE /\ run' = [R EXCEPT !.pc = "RUNNING",
                                     !.all_dates = AllDates(data_dict, a.start_date,
                                                            a.end_date)]
                 /\ strategy' = TickerRoles(engine, reset(strategy))
    /\ report' = NoReport
    /\ portfolio' = LedgerOfRun(portfolio, engine)
    /\ UNCHANGED <<last, engine, data_dict>>

\* the date of the iteration to come
Today == run.all_dates[run.i + 1]

\* the loop is about to run an iteration that takes the given branch
Iterating(path) ==
    /\ engine.kind = "multi"
    /\ run.pc = "RUNNING"
    /\ run.i < Len(run.all_dates)
    /\ PathOf(strategy, data_dict, Today) = path

\* the snapshot that ends an iteration, unless an exception has escaped or a
\* `continue` has ended the iteration before
Snapshot(X, date) ==
    IF X.raised # None \/ X.skipped THEN X ELSE [X EXCEPT !.P = snapshot(@, date)]

\* an iteration in which no branch trades
MultiHold ==
    /\ Iterating("hold")
    /\ \E h \in {DayHead(engine, portfolio, strategy, data_dict, Today)} :
         /\ engine' = h.E
         /\ EndOfDay(Snapshot(Context(h.P, strategy, run.log), Today))

\* an iteration through the Shannon branch
MultiShannon ==
    /\ Iterating("shannon")
    /\ \E h \in {DayHead(engine, portfolio, strategy, data_dict, Today)} :
         /\ engine' = h.E
         /\ EndOfDay(Snapshot(ShannonPath(WithMode(Context(h.P, strategy, run.log),
                                                   h.row),
                                          h.E, h.prices, Today, h.row.Signal), Today))

\* an iteration through the MovingAverageRebalance branch
MultiRebalance ==
    /\ Iterating("rebalance")
    /\ \E h \in {DayHead(engine, portfolio, strategy, data_dict, Today)} :
         /\ engine' = h.E
         /\ EndOfDay(Snapshot(MovingAverageRebalancePath(
                                  Context(h.P, strategy, run.log), h.E, h.prices,
                                  Today), Today))

\* an iteration through the branch of a target ticker
MultiSwitch ==
    /\ Iterating("switch")
    /\ \E h \in {DayHead(engine, portfolio, strategy, data_dict, Today)} :
         /\ engine' = h.E
         /\ EndOfDay(Snapshot(SwitchPath(Context(h.P, strategy, run.log), h.E,
                                         h.prices, Today, TargetOf(strategy, h.row)),
                              Today))

\* the end of run(): results = DataFrame(portfolio.equity_curve)
MultiFinish ==
    /\ engine.kind = "multi"
    /\ run.pc = "RUNNING"
    /\ run.i = Len(run.all_dates)
    /\ engine' = [engine EXCEPT !.results = portfolio.equity_curve]
    /\ run' = [run EXCEPT !.pc = "DONE"]
    /\ UNCHANGED <<portfolio, last, report, strategy, data_dict>>

\* set_data between two runs: the caller replaces the frames, here by an
\* empty dict
SetData ==
    /\ engine.kind = "multi"
    /\ run.pc \in {"INIT", "DONE", "FAILED"}
    /\ run.count < MaxRuns
    /\ DOMAIN data_dict # {}
    /\ data_dict' = NoData
    /\ UNCHANGED <<portfolio, last, report, engine, strategy, run>>

(***************************************************************************)
(* A single-asset engine, its strategy and the price data handed to run()  *)
(***************************************************************************)
EngineCash == 100 * Scale
Half == Ratio(1, 2)
Tenth == Ratio(1, 10)
Twentieth == Ratio(1, 20)

SimpleStrategies ==
    { NoStrategy,
      BuyHoldStrategy(Ratio(1, 1), None),
      ShannonStrategy(Half, None, None, "banding", 30, Tenth),
      ShannonStrategy(Half, None, None, "time_based", 2, Tenth),
      MovingAverageShannonHybridStrategy("S", None, 3, Half, Tenth),
      MovingAverageShannonHybrid2Strategy("S", "B", 3, Half, Tenth) }
\* the closes a series is drawn from: the hybrid strategy gets prices small
\* against the cash, so that a ratio can come to lie inside the band
SimpleCloses(S) ==
    IF S.cls \in {"MovingAverageShannonHybrid", "MovingAverageShannonHybrid2"}
    THEN {4, 5, 8}
    ELSE {0, 10, 20}

InitSimple ==
    \E S \in SimpleStrategies : \E series \in [1..MaxDays -> SimpleCloses(S)] :
        /\ engine = BacktestEngine("simple", <<"S">>, EngineCash, 1, 0)
        /\ strategy = S
        /\ data_dict = [t \in {"S"} |-> DataFrame(TRUE, Dates, series)]
        /\ portfolio = EnginePortfolio(engine)
        /\ last = NoCall
        /\ run = Idle(portfolio, strategy, engine)
        /\ report = NoReport

(***************************************************************************)
(* A multi-asset engine after set_strategy and set_data, the caller having  *)
(* generated the signal columns (backtest.py)                              *)
(***************************************************************************)
\* the strategies explored, the engine's tickers, the closes each ticker's
\* series is drawn from (NoBar: the ticker has no bar that date), the tickers
\* whose frames the caller hands to generate_signals, the monthly additions,
\* the dividend per share every ticker pays on DividendDate
MultiScenarios ==
    { [strategy |-> ShannonStrategy(Half, "S", "B", "banding", 30, Tenth),
       tickers  |-> <<"S", "B">>, signalled |-> <<"S", "B">>,
       closes   |-> <<{0, 10, 20}, {10, NoBar}, {NoBar}>>,
       monthly  |-> {0}, dividend |-> {0, Scale \div 2}, with_data |-> TRUE],
      [strategy |-> ShannonStrategy(Half, None, None, "banding", 30, Tenth),
       tickers  |-> <<"S">>, signalled |-> <<"S">>,
       closes   |-> <<{0, 10, 20}, {NoBar}, {NoBar}>>,
       monthly  |-> {0, 10 * Scale}, dividend |-> {0}, with_data |-> TRUE],
      [strategy |-> MovingAverageStrategy("S", "B", 2),
       tickers  |-> <<"S", "B">>, signalled |-> <<"S">>,
       closes   |-> <<{0, 10, 20}, {10, NoBar}, {NoBar}>>,
       monthly  |-> {0}, dividend |-> {0, Scale \div 2}, with_data |-> TRUE],
      [strategy |-> MovingAverageRebalanceStrategy(None, "Q", "T", "B", 2,
                                                   Half, Half, Twentieth),
       tickers  |-> <<"Q", "T", "B">>, signalled |-> <<"Q">>,
       closes   |-> <<{0, 20, 30}, {51}, {60}>>,
       monthly  |-> {0}, dividend |-> {0}, with_data |-> TRUE],
      [strategy |-> MovingAverageRebalanceStrategy(None, "Q", "T", "T", 2,
                                                   Half, Half, Twentieth),
       tickers  |-> <<"Q", "T", "B">>, signalled |-> <<"Q">>,
       closes   |-> <<{0, 20, 30}, {51}, {60}>>,
       monthly  |-> {0}, dividend |-> {0}, with_data |-> TRUE],
      [strategy |-> ShannonStrategy(Half, "S", None, "time_based", 2, Tenth),
       tickers  |-> <<"S">>, signalled |-> <<"S">>,
       closes   |-> <<{10, 20}, {NoBar}, {NoBar}>>,
       monthly  |-> {0}, dividend |-> {0}, with_data |-> TRUE],
      [strategy |-> MovingAverageShannonHybrid2Strategy("S", "B", 3, Half, Tenth),
       tickers  |-> <<"S", "B">>, signalled |-> <<"S">>,
       closes   |-> <<{4, 5, 8}, {10}, {NoBar}>>,
       monthly  |-> {0}, dividend |-> {0}, with_data |-> TRUE],
      [strategy |-> NoStrategy,
       tickers  |-> <<"S">>, signalled |-> << >>,
       closes   |-> <<{10}, {NoBar}, {NoBar}>>,
       monthly  |-> {0}, dividend |-> {0}, with_data |-> TRUE],
      [strategy |-> ShannonStrategy(Half, None, None, "banding", 30, Tenth),
       tickers  |-> <<"S">>, signalled |-> << >>,
       closes   |-> <<{10}, {NoBar}, {NoBar}>>,
       monthly  |-> {0}, dividend |-> {0}, with_data |-> FALSE] }

\* the caller's loop `signals_dict[t] = strategy.generate_signals(data_dict[t])`
RECURSIVE CallerSignals(_, _, _, _)
CallerSignals(S, D, signalled, i) ==
    IF i > Len(signalled) THEN [D |-> D, strategy |-> S, err |-> None]
    ELSE LET g == generate_signals(S, D[signalled[i]])
         IN IF g.err # None THEN [D |-> D, strategy |-> S, err |-> g.err]
            ELSE CallerSignals(g.strategy, [D EXCEPT ![signalled[i]] = g.df],
                               signalled, i + 1)

\* the frame with the Dividends column of one date set
DividendDate == 2
WithDividend(df, date, dividend) ==
    [df EXCEPT !.rows = [i \in 1..Len(@) |->
                            IF @[i].date = date
                            THEN [@[i] EXCEPT !.Dividends = dividend] ELSE @[i]]]

InitMulti ==
    \E sc \in MultiScenarios :
      \E m \in sc.monthly, dv \in sc.dividend, s1 \in [1..MaxDays -> sc.closes[1]],
         s2 \in [1..MaxDays -> sc.closes[2]], s3 \in [1..MaxDays -> sc.closes[3]] :
        LET series == <<s1, s2, s3>>
            raw == [t \in {sc.tickers[i] : i \in 1..Len(sc.tickers)} |->
                      WithDividend(
                          DataFrame(TRUE, Dates,
                              series[CHOOSE i \in 1..Len(sc.tickers) : sc.tickers[i] = t]),
                          DividendDate, dv)]
        IN \E g \in {CallerSignals(sc.strategy, raw, sc.signalled, 1)} :
           /\ g.err = None
           /\ engine = BacktestEngine("multi", sc.tickers, EngineCash, 1, m)
           /\ strategy = g.strategy
           /\ data_dict = IF sc.with_data THEN g.D ELSE NoData
           /\ portfolio = EnginePortfolio(engine)
           /\ last = NoCall
           /\ run = Idle(portfolio, strategy, engine)
           /\ report = NoReport

(***************************************************************************)
(* Specification SpecEngine: the runs of either engine                     *)
(***************************************************************************)
\* the caller asks for the summary, between two runs
GetSummary ==
    /\ engine.kind \in {"simple", "multi"}
    /\ run.pc \in {"INIT", "DONE", "FAILED"}
    /\ report' = [op |-> "get_summary",
                  input |-> [results |-> engine.results, pc |-> run.pc],
                  result |-> get_summary(engine, portfolio)]
    /\ UNCHANGED <<portfolio, last, engine, strategy, data_dict, run>>

InitEngine == InitSimple \/ InitMulti

NextEngine ==
    \/ SimpleRun \/ SimpleStep \/ SimpleFinish
    \/ MultiRun \/ MultiHold \/ MultiShannon \/ MultiRebalance \/ MultiSwitch
    \/ MultiFinish \/ SetData \/ GetSummary

SpecEngine == InitEngine /\ [][NextEngine]_vars

(***************************************************************************)
(* Ledger properties                                                       *)
(***************************************************************************)
\* the cost of buying, and the proceeds of selling, q at price p under the
\* ledger's rate r: q*p*(1+r) and q*p*(1-r), in money units
GrossCost(P, q, p) == q * p * (Scale + P.commission_rate)
NetProceeds(P, q, p) == q * p * (Scale - P.commission_rate)

\* a buy (of a quantity that passes the integer test) that asks for more than
\* the cash at hand is rejected with InsufficientFunds and leaves the ledger
\* as it was
UnfundedBuyRejected ==
    (/\ last.op = "buy"
     /\ last.quantity > 0
     /\ (last.is_int \/ last.allow_fractional)
     /\ GrossCost(last.before, last.quantity, last.price) > last.before.cash)
    => (last.err = "InsufficientFunds" /\ portfolio = last.before)

\* C1 as stated: with initial_cash >= 0, commission_rate >= 0 and non-negative
\* prices and dividends (all ledgers and inputs of Spec), cash >= 0 after
\* every operation, and an unfunded buy is rejected, not executed or clamped.
C1_CashNeverNegative ==
    /\ portfolio.cash >= 0
    /\ UnfundedBuyRejected

\* C1 amended: the same for ledgers whose commission_rate is at most 1
\* (100 %): a sell credits quantity*price*(1 - rate), which is a debit when
\* the rate exceeds 1, and sell never checks the cash.
C1_CashNeverNegativeRateAtMostOne ==
    /\ portfolio.commission_rate <= Scale => portfolio.cash >= 0
    /\ UnfundedBuyRejected

\* a ledger with rate <= 1 on which an unfunded buy has just been rejected
\* after an earlier trade
C1_Witness ==
    /\ portfolio.commission_rate <= Scale
    /\ last.op = "buy" /\ last.err = "InsufficientFunds"
    /\ Len(portfolio.trades) > 0
    /\ portfolio.initial_cash > 0

\* C2: total_value is cash plus the sum over the held positions of
\* quantity * current_price; every snapshot record has
\* total_value = cash + market_value; and a fresh ledger is worth initial_cash.
C2_ValueConservation ==
    /\ total_value(portfolio)
         = portfolio.cash
           + (IF "A" \in DOMAIN portfolio.positions
              THEN portfolio.positions["A"].quantity
                   * portfolio.positions["A"].current_price * Scale ELSE 0)
           + (IF "B" \in DOMAIN portfolio.positions
              THEN portfolio.positions["B"].quantity
                   * portfolio.positions["B"].current_price * Scale ELSE 0)
    /\ \A i \in 1..Len(portfolio.equity_curve) :
          portfolio.equity_curve[i].total_value
            = portfolio.equity_curve[i].cash + portfolio.equity_curve[i].market_value
    /\ last.op = "snapshot" =>
          LET r == portfolio.equity_curve[Len(portfolio.equity_curve)]
          IN /\ r.cash = portfolio.cash
             /\ r.total_value = total_value(portfolio)
    /\ last.op = "init" => total_value(portfolio) = portfolio.initial_cash

\* a snapshot taken while a position is marked at a price other than its cost
C2_Witness ==
    /\ last.op = "snapshot"
    /\ \E t \in DOMAIN portfolio.positions :
          portfolio.positions[t].current_price * portfolio.positions[t].avg_price.d
             # portfolio.positions[t].avg_price.n

\* C3: every ticker in the positions map has quantity > 0; a sell of the
\* whole holding (an over-sell clamped to it included) removes the ticker and
\* get_position then returns None.
C3_NoEmptyPosition ==
    /\ \A t \in DOMAIN portfolio.positions : portfolio.positions[t].quantity > 0
    /\ (/\ last.op = "sell" /\ last.err = None
        /\ last.quantity >= last.before.positions[last.ticker].quantity)
       => (/\ last.ticker \notin DOMAIN portfolio.positions
           /\ get_position(portfolio, last.ticker) = None)

\* an over-sell clamped to the holding has just removed the position
C3_Witness ==
    /\ last.op = "sell" /\ last.err = None
    /\ last.quantity > last.before.positions[last.ticker].quantity
    /\ get_position(portfolio, last.ticker) = None

\* the quantity a successful sell sold: the requested one, clamped to the holding
SoldQuantity ==
    IF last.quantity > last.before.positions[last.ticker].quantity
    THEN last.before.positions[last.ticker].quantity ELSE last.quantity

\* a successful buy debits q*p*(1+r); a successful sell of q <= held credits
\* q*p*(1-r)
CommissionSymmetry ==
    /\ (last.op = "buy" /\ last.err = None) =>
          portfolio.cash
            = last.before.cash - GrossCost(last.before, last.quantity, last.price)
    /\ (/\ last.op = "sell" /\ last.err = None
        /\ last.quantity <= last.before.positions[last.ticker].quantity) =>
          portfolio.cash
            = last.before.cash + NetProceeds(last.before, last.quantity, last.price)

\* the round trip of the claim: a fresh ledger of 100,000 at rate 0.001 has
\* just bought 100 at 150 ...
RoundTripBought ==
    /\ last.op = "buy" /\ last.err = None
    /\ last.before = NewPortfolio(100000 * Scale, 1)
    /\ last.quantity = 100 /\ last.price = 150
\* ... and, right after that buy, has just sold all 100 at 165
RoundTripSold ==
    /\ last.op = "sell" /\ last.err = None
    /\ last.before.initial_cash = 100000 * Scale
    /\ last.before.commission_rate = 1
    /\ Len(last.before.trades) = 1
    /\ last.before.trades[1].action = "BUY"
    /\ last.before.trades[1].ticker = last.ticker
    /\ last.before.trades[1].quantity = 100
    /\ last.before.trades[1].price = 150
    /\ last.before.cash
         = 100000 * Scale - GrossCost(last.before, 100, 150)
    /\ last.quantity = 100 /\ last.price = 165

\* C10 as stated: ... buying 100 at 150 gives cash 84,850 with quantity 100
\* and average cost 150, and selling all 100 at 165 gives cash 101,335, no
\* position and total_value 101,335.
C10_RoundTripAsStated ==
    /\ CommissionSymmetry
    /\ RoundTripBought =>
          /\ portfolio.cash = 84850 * Scale
          /\ portfolio.positions[last.ticker].quantity = 100
          /\ portfolio.positions[last.ticker].avg_price = Frac(150, 1)
    /\ RoundTripSold =>
          /\ portfolio.cash = 101335 * Scale
          /\ portfolio.positions = EmptyPositions
          /\ total_value(portfolio) = 101335 * Scale

\* C10 amended: the two formulas hold, and they give 84,985 after the buy
\* (100000 - 100*150*1.001) and 101,468.5 after the sell
\* (84985 + 100*165*0.999), with no position and total_value 101,468.5.
C10_RoundTrip ==
    /\ CommissionSymmetry
    /\ RoundTripBought =>
          /\ portfolio.cash = 84985 * Scale
          /\ portfolio.positions[last.ticker].quantity = 100
          /\ portfolio.positions[last.ticker].avg_price = Frac(150, 1)
    /\ RoundTripSold =>
          /\ portfolio.cash = 101468 * Scale + Scale \div 2
          /\ portfolio.positions = EmptyPositions
          /\ total_value(portfolio) = 101468 * Scale + Scale \div 2

\* the round trip has been completed
C10_Witness == RoundTripSold

\* the ticker of the last call was held when the call was made, and how much
HeldBefore == last.ticker \in DOMAIN last.before.positions
QuantityBefore == last.before.positions[last.ticker].quantity

\* C11: every rejected order leaves the ledger unchanged.  A buy of a
\* quantity <= 0, a buy of a non-int quantity without allow_fractional, a
\* buy that costs more than the cash, a sell of a ticker that is not held and
\* a sell of a quantity <= 0 each raise InvalidOrder or InsufficientFunds, and
\* after any raise cash, positions, trade log and equity curve are those of
\* before the call.
C11_RejectedOrderLeavesLedger ==
    /\ last.err \in {None, "InvalidOrder", "InsufficientFunds"}
    /\ last.err # None => portfolio = last.before
    /\ (last.op = "buy" /\ last.quantity <= 0) => last.err = "InvalidOrder"
    /\ (last.op = "buy" /\ last.quantity > 0
           /\ ~last.is_int /\ ~last.allow_fractional) => last.err = "InvalidOrder"
    /\ (last.op = "buy" /\ last.quantity > 0
           /\ (last.is_int \/ last.allow_fractional)
           /\ last.before.cash < GrossCost(last.before, last.quantity, last.price))
          => last.err = "InsufficientFunds"
    /\ (last.op = "sell" /\ ~HeldBefore) => last.err = "InvalidOrder"
    /\ (last.op = "sell" /\ last.quantity <= 0) => last.err = "InvalidOrder"

\* a float quantity has just been refused on a ledger that holds a position
\* and has cash for the order
C11_Witness ==
    /\ last.op = "buy" /\ last.err = "InvalidOrder"
    /\ last.quantity > 0 /\ ~last.is_int
    /\ last.before.cash >= GrossCost(last.before, last.quantity, last.price)
    /\ last.before.positions # EmptyPositions
    /\ Len(last.before.equity_curve) > 0

\* C12: a sell of more than is held raises InvalidOrder and changes nothing
\* when allow_partial is False; with allow_partial (the default) it sells
\* the held quantity: cash is credited for the held quantity, the position
\* is removed and the Trade appended carries the held quantity.
C12_OverSell ==
    (last.op = "sell" /\ HeldBefore /\ last.quantity > QuantityBefore) =>
        IF ~last.allow_partial
        THEN last.err = "InvalidOrder" /\ portfolio = last.before
        ELSE /\ last.err = None
             /\ portfolio.cash
                  = last.before.cash
                    + NetProceeds(last.before, QuantityBefore, last.price)
             /\ last.ticker \notin DOMAIN portfolio.positions
             /\ Len(portfolio.trades) = Len(last.before.trades) + 1
             /\ portfolio.trades[Len(portfolio.trades)].action = "SELL"
             /\ portfolio.trades[Len(portfolio.trades)].ticker = last.ticker
             /\ portfolio.trades[Len(portfolio.trades)].quantity = QuantityBefore
             /\ portfolio.trades[Len(portfolio.trades)].quantity # last.quantity

\* an over-sell in permissive mode has been executed while another ticker
\* stays in the ledger
C12_Witness ==
    /\ last.op = "sell" /\ HeldBefore /\ last.quantity > QuantityBefore
    /\ last.allow_partial
    /\ Len(portfolio.trades) = Len(last.before.trades) + 1
    /\ portfolio.positions # EmptyPositions

\* C13: receive_dividend changes nothing when the ticker is not held; when it
\* is held, cash grows by quantity * dividend_per_share and the position's
\* quantity, average cost and price, every other position, the trade log and
\* the equity curve stay as they were.
C13_DividendFrame ==
    last.op = "receive_dividend" =>
        IF ~HeldBefore THEN portfolio = last.before
        ELSE /\ portfolio.cash = last.before.cash + QuantityBefore * last.price
             /\ portfolio.positions = last.before.positions
             /\ portfolio.trades = last.before.trades
             /\ portfolio.equity_curve = last.before.equity_curve

\* a dividend has been paid on one of two held positions
C13_Witness ==
    /\ last.op = "receive_dividend" /\ HeldBefore /\ last.price > 0
    /\ portfolio.cash > last.before.cash
    /\ Cardinality(DOMAIN portfolio.positions) = 2

\* C14: update_price writes the current price of the named position and
\* nothing else; for a ticker that is not held it changes nothing and
\* creates no position.
C14_PriceUpdateFrame ==
    last.op = "update_price" =>
        /\ portfolio.cash = last.before.cash
        /\ portfolio.trades = last.before.trades
        /\ portfolio.equity_curve = last.before.equity_curve
        /\ DOMAIN portfolio.positions = DOMAIN last.before.positions
        /\ \A t \in DOMAIN portfolio.positions :
              /\ portfolio.positions[t].quantity = last.before.positions[t].quantity
              /\ portfolio.positions[t].avg_price = last.before.positions[t].avg_price
              /\ portfolio.positions[t].first_buy_date
                   = last.before.positions[t].first_buy_date
              /\ portfolio.positions[t].current_price
                   = IF t = last.ticker THEN last.price
                     ELSE last.before.positions[t].current_price

\* the price of one of two held positions has been moved
C14_Witness ==
    /\ last.op = "update_price" /\ HeldBefore
    /\ last.before.positions[last.ticker].current_price # last.price
    /\ Cardinality(DOMAIN portfolio.positions) = 2

\* C15: a successful buy of q at p into a position of quantity Q and average
\* cost A leaves quantity Q + q and average cost (Q*A + q*p)/(Q + q); a first
\* buy sets the average cost to p; a sell, a price update and a dividend leave
\* the average cost of every position that remains as it was.
C15_AverageCost ==
    /\ (last.op = "buy" /\ last.err = None /\ HeldBefore) =>
          LET A   == last.before.positions[last.ticker].avg_price
              new == portfolio.positions[last.ticker]
          IN /\ new.quantity = QuantityBefore + last.quantity
             /\ new.avg_price.n * A.d * (QuantityBefore + last.quantity)
                  = (QuantityBefore * A.n + last.quantity * last.price * A.d)
                      * new.avg_price.d
    /\ (last.op = "buy" /\ last.err = None /\ ~HeldBefore) =>
          /\ portfolio.positions[last.ticker].quantity = last.quantity
          /\ portfolio.positions[last.ticker].avg_price = Frac(last.price, 1)
    /\ last.op \in {"sell", "update_price", "receive_dividend"} =>
          \A t \in DOMAIN portfolio.positions :
              portfolio.positions[t].avg_price = last.before.positions[t].avg_price

\* a second buy at another price has moved the average cost between the two
\* prices
C15_Witness ==
    /\ last.op = "buy" /\ last.err = None /\ HeldBefore
    /\ last.before.positions[last.ticker].avg_price # Frac(last.price, 1)
    /\ portfolio.positions[last.ticker].avg_price
         # last.before.positions[last.ticker].avg_price

\* C16: the trade log is append-only.  A successful buy or sell appends one
\* Trade, of quantity > 0, at the end; a rejected order, a dividend, a price
\* update and a snapshot leave the log alone; entries of the log stay.
C16_TradeLogAppendOnly ==
    /\ (last.op \in {"buy", "sell"} /\ last.err = None) =>
          /\ Len(portfolio.trades) = Len(last.before.trades) + 1
          /\ SubSeq(portfolio.trades, 1, Len(last.before.trades)) = last.before.trades
          /\ portfolio.trades[Len(portfolio.trades)].quantity > 0
          /\ portfolio.trades[Len(portfolio.trades)].ticker = last.ticker
          /\ portfolio.trades[Len(portfolio.trades)].action
               = (IF last.op = "buy" THEN "BUY" ELSE "SELL")
    /\ ~(last.op \in {"buy", "sell"} /\ last.err = None) =>
          portfolio.trades = last.before.trades

\* a dividend has been received on a ledger whose log has two trades
C16_Witness ==
    /\ last.op = "receive_dividend" /\ HeldBefore /\ last.price > 0
    /\ Len(portfolio.trades) = 2

(***************************************************************************)
(* What a run has done, read from the ledger and from run.log              *)
(***************************************************************************)
\* the snapshots the current call of run() has appended, and their dates
RunCurve == SubSeq(portfolio.equity_curve, run.base + 1, Len(portfolio.equity_curve))
SnapshotDates == [k \in 1..Len(RunCurve) |-> RunCurve[k].date]
Snapshotted(d) == \E k \in 1..Len(RunCurve) : RunCurve[k].date = d

\* the orders of the run that the ledger executed and those it rejected
Executed(i) == run.log[i].err = None
Rejected(i) == run.log[i].err \in {"InsufficientFunds", "InvalidOrder"}
Traded(d, action, ticker) ==
    \E i \in DOMAIN run.log :
        /\ Executed(i)
        /\ run.log[i].date = d /\ run.log[i].action = action
        /\ run.log[i].ticker = ticker

\* the dates whose iteration has come to its end, and the date of the
\* iteration an exception has ended
DatesDone == {run.all_dates[k] : k \in 1..run.i}
Multi == engine.kind = "multi"

(***************************************************************************)
(* C4: sells before buys                                                   *)
(***************************************************************************)
\* C4: in the multi-asset engine, among the trades recorded for one date,
\* every SELL precedes every BUY: no executed SELL comes after an executed
\* BUY of the same date.
C4_SellsBeforeBuys ==
    Multi =>
      \A i, j \in DOMAIN run.log :
          (/\ i < j
           /\ run.log[i].date = run.log[j].date
           /\ Executed(i) /\ Executed(j)
           /\ run.log[i].action = "BUY")
          => run.log[j].action # "SELL"

(***************************************************************************)
(* C5: the purchase paid by the proceeds of the sale                       *)
(***************************************************************************)
\* the ticker the signal row of a date asks the run to hold ("ABOVE" stands
\* for the pair of stocks, stock_ticker1 being the first bought)
DayTarget(d) ==
    LET t == TargetOf(strategy, BaseRow(strategy, run.pre.data, d))
    IN IF t = "ABOVE" THEN strategy.stock_ticker1 ELSE t

\* the Close of a ticker on a date, 0 without a bar
CloseOn(t, d) ==
    IF t \in DOMAIN run.pre.data
    THEN IF HasBar(run.pre.data[t], d) THEN RowAt(run.pre.data[t], d).Close ELSE 0
    ELSE 0

\* what the ledger was worth at the snapshot of a date
ValueAt(d) == (CHOOSE s \in {RunCurve[k] : k \in 1..Len(RunCurve)} : s.date = d).total_value

\* the ledger's worth pays for two units of the ticker and their commission:
\* enough for a target of one half to come to at least one unit
Affords(d, t) ==
    /\ Snapshotted(d)
    /\ ValueAt(d) * (Scale - engine.commission_rate) >=
           2 * CloseOn(t, d) * Scale * Scale

\* C5: on a date of a multi-asset run on which a held ticker A was sold and
\* the signal row asks for another ticker B that has a price that date and
\* that the proceeds can pay, B is bought that same date.
C5_PurchaseFollowsSale ==
    Multi =>
      \A d \in DatesDone : \A A \in TickerSet(engine) :
          (/\ Traded(d, "SELL", A)
           /\ DayTarget(d) \in TickerSet(engine) \ {A}
           /\ CloseOn(DayTarget(d), d) > 0
           /\ Affords(d, DayTarget(d)))
          => Traded(d, "BUY", DayTarget(d))

(***************************************************************************)
(* C6: a rejected order is recovered from                                  *)
(***************************************************************************)
\* C6: the exception of a rejected buy or sell never leaves run(), the
\* rejected order leaves the ledger as it was, and the date of every rejected
\* order gets its snapshot: once run() has returned or raised, every date
\* with a rejected order is among the snapshots of the run and the run is DONE.
C6_RejectedOrderRecovered ==
    /\ run.raised \notin {"InsufficientFunds", "InvalidOrder"}
    /\ \A i \in DOMAIN run.log : Rejected(i) => ~run.log[i].changed
    /\ \A i \in DOMAIN run.log :
          (Rejected(i) /\ run.pc \in {"DONE", "FAILED"})
          => (run.pc = "DONE" /\ Snapshotted(run.log[i].date))

(***************************************************************************)
(* C7: an exception of the sizing call                                     *)
(***************************************************************************)
\* C7: an exception raised by calculate_position_size is caught by the
\* engine: no run() is ended by an exception raised inside its loop.
C7_SizingExceptionCaught == run.pc = "FAILED" => run.where # "loop"

(***************************************************************************)
(* C8: the checks at the head of run()                                     *)
(***************************************************************************)
\* what the checks at the head of run() reject: no strategy, no data (multi-
\* asset engine), a frame without a required column (single-asset engine)
Misconfigured ==
    \/ run.pre.strategy = NoStrategy
    \/ Multi /\ DOMAIN run.pre.data = {}
    \/ engine.kind = "simple" /\ \E t \in DOMAIN run.pre.data : ~run.pre.data[t].columns_ok

\* C8: a call of run() without strategy, without data (multi-asset engine) or
\* with a frame lacking a required column (single-asset engine) has raised
\* ValueError in the checks at its head, and ledger (equity curve included),
\* strategy and results are what they were when it was called.
C8_FailFast ==
    (run.count > 0 /\ Misconfigured)
    => /\ run.pc = "FAILED" /\ run.where = "checks" /\ run.raised = "ValueError"
       /\ portfolio = run.pre.portfolio
       /\ strategy = run.pre.strategy
       /\ engine.results = run.pre.results
       /\ run.i = 0 /\ run.log = << >>

\* a misconfigured call on an engine whose earlier run has traded
C8_Witness ==
    /\ run.count = 2 /\ Misconfigured
    /\ run.pc = "FAILED"
    /\ Len(portfolio.trades) > 0 /\ Len(engine.results) > 0

(***************************************************************************)
(* C9: one iteration and one snapshot per date                             *)
(***************************************************************************)
\* C9: a run() that has passed its checks ends DONE, and then the snapshots
\* it has appended are one per date of its calendar, in the calendar's
\* strictly increasing order, and results holds exactly those snapshots.
C9_OneSnapshotPerDate ==
    /\ (run.pc = "FAILED" => run.where = "checks")
    /\ \A k \in 1..(Len(run.all_dates) - 1) : run.all_dates[k] < run.all_dates[k + 1]
    /\ run.pc = "DONE" =>
          /\ run.i = Len(run.all_dates)
          /\ SnapshotDates = run.all_dates
          /\ engine.results = RunCurve

(***************************************************************************)
(* C17: who writes the strategy                                            *)
(***************************************************************************)
\* the strategy as its own methods leave it in a run: reset(), and in the
\* single-asset engine generate_signals on the filtered frame; none of the
\* calculate_position_size methods modelled writes a field
StrategyOwnState ==
    IF engine.kind = "simple" /\ run.pc \in {"RUNNING", "DONE"}
    THEN generate_signals(reset(run.pre.strategy),
                          FilterDates(run.pre.data[engine.tickers[1]],
                                      run.start_date, run.end_date)).strategy
    ELSE reset(run.pre.strategy)

\* C17: during a run the engine never writes a strategy field: once run() has
\* passed its checks the strategy is what reset() and the strategy's own
\* methods have made of the strategy run() was called with.
C17_EngineNeverWritesStrategy ==
    (run.count > 0 /\ run.where # "checks") => strategy = StrategyOwnState

(***************************************************************************)
(* C18, C19: the signal of the first bar and of a regime change            *)
(***************************************************************************)
\* the frames generate_signals has returned: data_with_signals of the
\* single-asset engine, and the frames of data_dict that carry a TargetTicker
\* column (MovingAverage, MovingAverageRebalance)
SignalledFrames ==
    (IF engine.kind = "simple" /\ run.pc \in {"RUNNING", "DONE"}
     THEN {run.frame} ELSE {})
    \cup {data_dict[t].rows : t \in {u \in DOMAIN data_dict :
                                       /\ Len(data_dict[u].rows) > 0
                                       /\ data_dict[u].rows[1].TargetTicker # None}}

\* C18: the first bar of every frame generate_signals returns has Signal 1.
C18_FirstBarSignalsEntry ==
    \A rows \in SignalledFrames : Len(rows) > 0 => rows[1].Signal = 1

\* C19: in a frame of a regime-based strategy (the close at or above its
\* moving average, or below it) every bar whose regime differs from the
\* regime of the bar before has Signal 1.
C19_RegimeChangeSignalsEntry ==
    strategy.cls \in {"MovingAverage", "MovingAverageRebalance"} =>
        \A t \in DOMAIN data_dict :
            LET rows == data_dict[t].rows
            IN \A i \in 2..Len(rows) :
                  (/\ rows[1].TargetTicker # None
                   /\ AboveMA(rows, i, strategy.ma_period)
                        # AboveMA(rows, i - 1, strategy.ma_period))
                  => rows[i].Signal = 1

\* ---- banding ----
\* |value / total - target| < band_threshold
WithinBand(value, total, target, thr) ==
    /\ total > 0
    /\ Abs(value * target.d - target.n * total) * thr.d < thr.n * target.d * total

HeldValue(P, t) ==
    IF t \in DOMAIN P.positions THEN market_value(P.positions[t]) ELSE 0

\* the target ratio of a ticker of a banding strategy
TargetOfTicker(S, t) ==
    IF t = S.bond_ticker /\ t # None
    THEN Ratio(S.stock_pct.d - S.stock_pct.n, S.stock_pct.d) ELSE S.stock_pct

\* the orders of the day leave no trade of ticker t in the ledger X.P
NoTradeOf(X, t) ==
    \A k \in (Len(portfolio.trades) + 1)..Len(X.P.trades) : X.P.trades[k].ticker # t

\* the single-asset engine is about to process a row with signal 3
SimpleBandingDay ==
    /\ engine.kind = "simple" /\ run.pc = "RUNNING" /\ run.i < Len(run.all_dates)
    /\ strategy.cls \in {"Shannon", "MovingAverageShannonHybrid"}
    /\ run.frame[run.i + 1].Signal = 3

\* the multi-asset engine is about to take its two-asset branch with signal 3
MultiBandingDay ==
    /\ engine.kind = "multi" /\ run.pc = "RUNNING" /\ run.i < Len(run.all_dates)
    /\ strategy.cls = "Shannon"
    /\ PathOf(strategy, data_dict, Today) = "shannon"
    /\ BaseRow(strategy, data_dict, Today).Signal = 3

SimpleBandingQuiet ==
    SimpleBandingDay =>
      LET t   == engine.tickers[1]
          row == run.frame[run.i + 1]
          X   == SimplePrice(Context(portfolio, strategy, run.log), t, row)
      IN WithinBand(HeldValue(X.P, t), total_value(X.P),
                    TargetOfTicker(strategy, t), strategy.band_threshold)
         => NoTradeOf(SimpleTrade(X, engine, t, row), t)

MultiBandingQuiet(t) ==
    MultiBandingDay =>
      LET h == DayHead(engine, portfolio, strategy, data_dict, Today)
      IN (t # None
          /\ WithinBand(HeldValue(h.P, t), total_value(h.P),
                        TargetOfTicker(strategy, t), strategy.band_threshold))
         => NoTradeOf(ShannonPath(WithMode(Context(h.P, strategy, run.log), h.row),
                                  h.E, h.prices, Today, 3), t)

\* C20: for every banding strategy, on a bar with the banding-check signal 3
\* on which the ticker's value over the portfolio value lies within
\* band_threshold of its target ratio, the order delta is zero and the bar
\* records no trade of the ticker
C20_BandingIdempotence ==
    /\ SimpleBandingQuiet
    /\ MultiBandingQuiet(strategy.stock_ticker)
    /\ MultiBandingQuiet(strategy.bond_ticker)

\* ---- rebalancing to the target ----
\* |value / total - target| >= band_threshold
OutOfBand(value, total, target, thr) ==
    /\ total > 0
    /\ Abs(value * target.d - target.n * total) * thr.d >= thr.n * target.d * total

\* floor(portfolio_value * target_pct / price) - current_quantity
ExactTarget(portfolio_value, pct, price, current_quantity) ==
    (portfolio_value * pct.n) \div (pct.d * price * Scale) - current_quantity

\* the sizing call the single-asset engine makes for a row
SimpleSizing(X, E, ticker, row) ==
    calculate_position_size(X.S, total_value(X.P), row.Close, row.Signal,
        [Kwargs(quantity_of(X.P, ticker), X.P.cash, 0, 0, E.commission_rate, ticker)
            EXCEPT !.mode = row.Mode])

\* the sizing calls the two-asset branch makes on a day with stock_signal
MultiOrdersToday(h, stock_signal) ==
    ShannonOrders(WithMode(Context(h.P, strategy, run.log), h.row), h.E, h.prices,
        stock_signal,
        quantity_of(h.P, strategy.stock_ticker)
            * PriceOf(h.prices, strategy.stock_ticker) * Scale,
        IF HasBond(strategy)
        THEN quantity_of(h.P, strategy.bond_ticker)
                 * PriceOf(h.prices, strategy.bond_ticker) * Scale
        ELSE h.P.cash)

\* the two-asset branch rebalances today (something is held already)
Rebalancing(h) ==
    \/ quantity_of(h.P, strategy.stock_ticker) # 0
    \/ (HasBond(strategy) /\ quantity_of(h.P, strategy.bond_ticker) # 0)

SimpleBandingExact ==
    (SimpleBandingDay /\ strategy.cls = "Shannon") =>
      LET t   == engine.tickers[1]
          row == run.frame[run.i + 1]
          X   == SimplePrice(Context(portfolio, strategy, run.log), t, row)
      IN (row.Close > 0
          /\ OutOfBand(HeldValue(X.P, t), total_value(X.P),
                       TargetOfTicker(strategy, t), strategy.band_threshold))
         => SimpleSizing(X, engine, t, row)
              = Sized(ExactTarget(total_value(X.P), TargetOfTicker(strategy, t),
                                  row.Close, quantity_of(X.P, t)))

MultiBandingExact(t) ==
    MultiBandingDay =>
      LET h      == DayHead(engine, portfolio, strategy, data_dict, Today)
          orders == MultiOrdersToday(h, 3)
      IN Rebalancing(h) =>
           \A i \in 1..Len(orders) :
             (orders[i].ticker = t /\ orders[i].price > 0
              /\ OutOfBand(HeldValue(h.P, t), total_value(h.P),
                           TargetOfTicker(strategy, t), strategy.band_threshold))
             => orders[i].z
                  = Sized(ExactTarget(total_value(h.P), TargetOfTicker(strategy, t),
                                      orders[i].price, quantity_of(h.P, t)))

\* C21: on a bar with the banding-check signal 3 on which a ticker's ratio is
\* band_threshold or more away from its target ratio, Shannon sizing returns
\* floor(portfolio_value * target_pct / price) - current_quantity for it
C21_BandingRebalancesToTarget ==
    /\ SimpleBandingExact
    /\ MultiBandingExact(strategy.stock_ticker)
    /\ MultiBandingExact(strategy.bond_ticker)

\* ---- funding of a positive delta ----
\* a positive delta costs, commission included, no more than the cash passed
Funded(z, price, cash, commission_rate) ==
    (z.exc = None /\ z.q > 0) => z.q * price * (Scale + commission_rate) <= cash

\* the sizing call of the single-asset engine's next row
SimpleSizingFunded ==
    (engine.kind = "simple" /\ run.pc = "RUNNING" /\ run.i < Len(run.all_dates)
       /\ run.frame[run.i + 1].Signal # 0) =>
      LET t   == engine.tickers[1]
          row == run.frame[run.i + 1]
          X   == SimplePrice(Context(portfolio, strategy, run.log), t, row)
      IN Funded(SimpleSizing(X, engine, t, row), row.Close, X.P.cash,
                engine.commission_rate)

\* the sizing calls of the two-asset branch's next rebalancing
MultiSizingFunded ==
    (engine.kind = "multi" /\ run.pc = "RUNNING" /\ run.i < Len(run.all_dates)
       /\ PathOf(strategy, data_dict, Today) = "shannon") =>
      LET h      == DayHead(engine, portfolio, strategy, data_dict, Today)
          orders == MultiOrdersToday(h, h.row.Signal)
      IN Rebalancing(h) =>
           \A i \in 1..Len(orders) :
             Funded(orders[i].z, orders[i].price, h.P.cash, h.E.commission_rate)

\* no purchase the engines have issued was rejected for lack of cash
NoUnfundedBuy ==
    \A k \in 1..Len(run.log) :
        ~(run.log[k].action = "BUY" /\ run.log[k].err = "InsufficientFunds")

\* C22: a positive delta returned by calculate_position_size costs, commission
\* included, no more than the cash passed to the call, and no purchase an
\* engine issues fails with InsufficientFunds
C22_PositiveDeltaFunded ==
    /\ SimpleSizingFunded
    /\ MultiSizingFunded
    /\ NoUnfundedBuy

\* ---- monthly addition ----
\* the date of the iteration to come is the first of its month in the calendar
FirstOfMonth ==
    run.i = 0 \/ Month(run.all_dates[run.i]) # Month(Today)

\* C23: with monthly_addition > 0 the iteration of a date begins by adding
\* monthly_addition to cash when the date is the first simulated date of its
\* calendar month, and adds nothing on any other date
C23_MonthlyAdditionOncePerMonth ==
    (engine.kind = "multi" /\ run.pc = "RUNNING" /\ run.i < Len(run.all_dates)
       /\ engine.monthly_addition > 0) =>
      MonthlyAddition(engine, portfolio, Today).P.cash
        = portfolio.cash + (IF FirstOfMonth THEN engine.monthly_addition ELSE 0)

\* ---- a run replayed on fresh instances ----
\* the engine and the ledger as their constructors leave them
FreshEngine == [engine EXCEPT !.last_month = 0, !.results = << >>]
FreshContext(S) == Context(EnginePortfolio(engine), S, << >>)

\* the loop of SimpleBacktestEngine.run over the rows from row i on
RECURSIVE SimpleReplay(_, _, _, _)
SimpleReplay(E, X, rows, i) ==
    IF i > Len(rows) \/ X.raised # None THEN X
    ELSE SimpleReplay(E, SimpleDay(E, Context(X.P, X.S, X.log), rows[i]), rows, i + 1)

\* the signals of the run's arguments, generated again
FreshSignals ==
    generate_signals(reset(run.pre.strategy),
                     FilterDates(run.pre.data[engine.tickers[1]],
                                 run.start_date, run.end_date))

\* the branch PathOf selects for the date
PathContext(h, X, path, date) ==
    CASE path = "shannon"   -> ShannonPath(WithMode(X, h.row), h.E, h.prices, date,
                                           h.row.Signal)
      [] path = "rebalance" -> MovingAverageRebalancePath(X, h.E, h.prices, date)
      [] path = "switch"    -> SwitchPath(X, h.E, h.prices, date, TargetOf(X.S, h.row))
      [] OTHER              -> X

\* the loop of MultiAssetBacktestEngine.run over the dates from date i on
RECURSIVE MultiReplay(_, _, _, _, _)
MultiReplayDay(h, X, D, dates, i) ==
    MultiReplay(h.E, Snapshot(PathContext(h, Context(h.P, X.S, X.log),
                                          PathOf(X.S, D, dates[i]), dates[i]),
                              dates[i]),
                D, dates, i + 1)
MultiReplay(E, X, D, dates, i) ==
    IF i > Len(dates) \/ X.raised # None THEN X
    ELSE MultiReplayDay(DayHead(E, X.P, X.S, D, dates[i]), X, D, dates, i)

\* the ledger a run with the same arguments leaves on fresh instances
FreshOutcome ==
    IF engine.kind = "simple"
    THEN SimpleReplay(FreshEngine, FreshContext(FreshSignals.strategy),
                      FreshSignals.df.rows, 1).P
    ELSE MultiReplay(FreshEngine,
                     FreshContext(TickerRoles(engine, reset(run.pre.strategy))),
                     run.pre.data,
                     AllDates(run.pre.data, run.start_date, run.end_date), 1).P

\* the loop of run() has ended, normally or by an exception
LoopEnded ==
    run.pc = "DONE" \/ (run.pc = "FAILED" /\ run.where = "loop")

MaxSeries == 5
SeriesValues == {90, 100, 110, 120, 130}
\* the index of a series: every other day
SeriesDate(i) == 2 * i - 1
SeriesInputs ==
    UNION {{[i \in 1..n |-> [date |-> SeriesDate(i), value |-> f[i]]] :
               f \in [1..n -> SeriesValues]} : n \in 0..MaxSeries}

\* the series a metrics function is about to be called on
Series(values) == [op |-> "series", input |-> values, result |-> << >>]

InitMetrics ==
    /\ portfolio = NewPortfolio(DEFAULT_INITIAL_CASH, DEFAULT_COMMISSION)
    /\ last = NoCall
    /\ engine = NoEngine
    /\ strategy = NoStrategy
    /\ data_dict = NoData
    /\ run = Idle(portfolio, strategy, engine)
    /\ \E values \in SeriesInputs : report = Series(values)

CalculateMaxDrawdown ==
    /\ report.op # "calculate_max_drawdown"
    /\ report' = [op |-> "calculate_max_drawdown", input |-> report.input,
                  result |-> calculate_max_drawdown(report.input)]
    /\ UNCHANGED <<portfolio, last, engine, strategy, data_dict, run>>

CalculateRecoveryDays ==
    /\ report.op # "calculate_recovery_days"
    /\ report' = [op |-> "calculate_recovery_days", input |-> report.input,
                  result |-> calculate_recovery_days(report.input)]
    /\ UNCHANGED <<portfolio, last, engine, strategy, data_dict, run>>

NextMetrics == CalculateMaxDrawdown \/ CalculateRecoveryDays

SpecMetrics == InitMetrics /\ [][NextMetrics]_vars

\* ---- drawdown, stated from its definition ----
\* max over j <= i of v_j
RunningMax(v, i) ==
    CHOOSE m \in {v[j].value : j \in 1..i} : \A j \in 1..i : v[j].value <= m
\* (v_i - max_{j<=i} v_j) / max_{j<=i} v_j, as a percentage
DrawdownPct(v, i) == Ratio((v[i].value - RunningMax(v, i)) * 100, RunningMax(v, i))
\* the position of a date of the index
PositionOf(v, date) == CHOOSE i \in 1..Len(v) : v[i].date = date
ExampleSeries ==
    [i \in 1..5 |-> [date |-> SeriesDate(i), value |-> <<100, 120, 90, 110, 130>>[i]]]

\* C25: for a series of two or more positive values calculate_max_drawdown
\* returns the least (v_i - max_{j<=i} v_j)/max_{j<=i} v_j as a percentage,
\* which is never positive; the trough attains it and the peak is the running
\* maximum at the trough; [100, 120, 90, 110, 130] gives -25 %, peak 120 and
\* trough 90
C25_MaxDrawdown ==
    (report.op = "calculate_max_drawdown" /\ Len(report.input) >= 2) =>
      /\ report.result.mdd.n <= 0 /\ report.result.mdd.d > 0
      /\ \A i \in 1..Len(report.input) :
            ~FracLess(DrawdownPct(report.input, i), report.result.mdd)
      /\ \E i \in 1..Len(report.input) :
            /\ report.input[i].date = report.result.mdd_end
            /\ FracEqual(DrawdownPct(report.input, i), report.result.mdd)
            /\ report.result.trough_value = report.input[i].value
            /\ report.result.peak_value = RunningMax(report.input, i)
      /\ report.input = ExampleSeries =>
            /\ FracEqual(report.result.mdd, Ratio(0 - 25, 1))
            /\ report.result.peak_value = 120
            /\ report.result.trough_value = 90

C25_Witness ==
    /\ report.op = "calculate_max_drawdown"
    /\ report.input = ExampleSeries
    /\ FracEqual(report.result.mdd, Ratio(0 - 25, 1))
    /\ report.result.mdd_end = SeriesDate(3)

\* ---- recovery ----
\* the first date after the trough whose value is at least the peak (NoDate:
\* there is none)
RecoveryAfter(v, info) ==
    IF info.mdd_end = NoDate THEN NoDate
    ELSE LET later == {i \in (PositionOf(v, info.mdd_end) + 1)..Len(v) :
                          v[i].value >= info.peak_value}
         IN IF later = {} THEN NoDate
            ELSE v[CHOOSE i \in later : \A j \in later : i <= j].date

\* C26: the recovery date is the first date after the trough whose value is at
\* least the peak, recovery_days the number of days from the trough to it, and
\* both are None when no later value reaches the peak
C26_RecoveryAfterTrough ==
    /\ report.op = "calculate_max_drawdown" =>
         report.result.recovery_date = RecoveryAfter(report.input, report.result)
    /\ report.op = "calculate_recovery_days" =>
         LET info == calculate_max_drawdown(report.input)
             date == RecoveryAfter(report.input, info)
         IN report.result = IF date = NoDate THEN NoDays ELSE date - info.mdd_end

\* C27: after any run() that completes, get_summary() returns a summary
\* holding the final value (the total value of the last snapshot), the total
\* return and the trade count, whatever the number of simulated days and
\* whether or not orders were skipped.
SummaryOfRun ==
    /\ report.op = "get_summary"
    /\ report.input.pc = "DONE"

SummaryFigures == {"Final Value", "Total Return", "Total Trades"}

C27_SummaryAfterRun ==
    SummaryOfRun =>
        /\ SummaryFigures \subseteq DOMAIN report.result
        /\ report.result["Total Trades"] = Len(portfolio.trades)
        /\ report.result["Total Return"] = total_profit_loss_pct(portfolio)
        /\ report.result["Final Value"] =
               portfolio.equity_curve[Len(portfolio.equity_curve)].total_value

\* the same for the runs that simulated at least one date
C27_SummaryAfterDays ==
    (SummaryOfRun /\ run.i > 0) => C27_SummaryAfterRun

(***************************************************************************)
(* C28: the ratchet variant never sells the stock while BELOW              *)
(***************************************************************************)
MaxHeld == 30
Ratchet == strategy.cls = "MovingAverageShannonHybrid2"

\* the row of the strategy's base ticker the engine reads on the k-th date of
\* the run
RowOfDay(k) ==
    IF engine.kind = "simple" THEN run.frame[k]
    ELSE BaseRow(strategy, data_dict, run.all_dates[k])

\* the sizing of the stock ticker on a BELOW bar, for a signal, a holding and
\* a price, the ledger being the present one
StockDeltaBelow(signal, held, price) ==
    calculate_position_size(strategy, total_value(portfolio), price, signal,
        [Kwargs(held, portfolio.cash, HeldValue(portfolio, strategy.bond_ticker),
                held * price * Scale, engine.commission_rate,
                strategy.stock_ticker) EXCEPT !.mode = "BELOW"])

\* no run has sold the stock ticker on a date whose bar is BELOW
NoStockSaleBelow ==
    \A k \in 1..Len(run.all_dates) :
        (k <= run.i + 1 /\ RowOfDay(k).Mode = "BELOW")
        => ~Traded(run.all_dates[k], "SELL", strategy.stock_ticker)

\* C28: with MovingAverageShannonHybrid2, calculate_position_size returns no
\* negative delta for the stock ticker while the regime is BELOW, whatever the
\* signal and the holdings, and no run records a SELL of the stock ticker on a
\* BELOW bar.
C28_RatchetNeverSellsStock ==
    (Ratchet /\ run.pc \in {"RUNNING", "DONE", "FAILED"} /\ Len(run.all_dates) > 0)
    => /\ \A signal \in 0..3, held \in 0..MaxHeld, price \in {4, 5, 8} :
             StockDeltaBelow(signal, held, price).q >= 0
       /\ NoStockSaleBelow

\* a BELOW bar with a signal has gone by with the stock held above its band
\* (a Shannon rebalance would have sold it), and the stock is still all there
C28_Witness ==
    /\ Ratchet /\ run.pc = "RUNNING" /\ run.i > 1
    /\ RowOfDay(run.i).Mode = "BELOW" /\ RowOfDay(run.i).Signal # 0
    /\ quantity_of(portfolio, strategy.stock_ticker) > 0
    /\ OutOfBand(HeldValue(portfolio, strategy.stock_ticker), total_value(portfolio),
                 strategy.stock_pct, strategy.band_threshold)
    /\ StockDeltaBelow(1, quantity_of(portfolio, strategy.stock_ticker),
                       RowOfDay(run.i).Close).q = 0
    /\ ~\E i \in DOMAIN run.log : run.log[i].action = "SELL"

(***************************************************************************)
(* InverseMAStrategy (src/strategy/inver_ma.py) and the specification      *)
(* SpecInverseMA: a caller generates the signals of a base series and then *)
(* sizes the TQQQ ticker bar by bar, placing each order in a ledger        *)
(***************************************************************************)
\* qqq_peak_price None, QQQPeak None
NoPeak == NoBar

\* InverseMAStrategy.__init__
InverseMAStrategy(base_ticker, qqq_ticker, tqqq_ticker, ma_period, below_mode) ==
    [cls |-> "InverseMA", base_ticker |-> base_ticker, stock_ticker |-> base_ticker,
     qqq_ticker |-> qqq_ticker, tqqq_ticker |-> tqqq_ticker, ma_period |-> ma_period,
     stock1_pct |-> Half, stock2_pct |-> Half, band_threshold |-> Twentieth,
     current_mode |-> None, qqq_peak_price |-> NoPeak, use_bond |-> FALSE,
     below_mode |-> below_mode, covered_call_ticker |-> "QYLD", signals |-> << >>]

\* InverseMAStrategy.generate_signals, row i: its Signal, QQQPeak and
\* PeakRecovered columns, and current_mode and qqq_peak_price after the row
RECURSIVE InverseMARow(_, _, _)
InverseMAStep(S, rows, i, prev) ==
    IF ~AboveMA(rows, i - 1, S.ma_period) /\ AboveMA(rows, i, S.ma_period)
    THEN [Signal |-> 3, QQQPeak |-> NoPeak, PeakRecovered |-> FALSE,
          current_mode |-> "ABOVE", qqq_peak_price |-> NoPeak]
    ELSE IF AboveMA(rows, i - 1, S.ma_period) /\ ~AboveMA(rows, i, S.ma_period)
    THEN [Signal |-> 1, QQQPeak |-> rows[i - 1].Close, PeakRecovered |-> FALSE,
          current_mode |-> "BELOW", qqq_peak_price |-> rows[i - 1].Close]
    ELSE IF prev.qqq_peak_price # NoPeak /\ rows[i].Close >= prev.qqq_peak_price
    THEN [Signal |-> IF AboveMA(rows, i, S.ma_period) THEN 3 ELSE 0,
          QQQPeak |-> NoPeak, PeakRecovered |-> TRUE,
          current_mode |-> IF AboveMA(rows, i, S.ma_period) THEN "ABOVE" ELSE "BELOW",
          qqq_peak_price |-> NoPeak]
    ELSE [Signal |-> IF AboveMA(rows, i, S.ma_period) THEN 3 ELSE 0,
          QQQPeak |-> IF AboveMA(rows, i, S.ma_period) THEN NoPeak
                      ELSE prev.qqq_peak_price,
          PeakRecovered |-> FALSE,
          current_mode |-> IF AboveMA(rows, i, S.ma_period) THEN "ABOVE" ELSE "BELOW",
          qqq_peak_price |-> prev.qqq_peak_price]
InverseMARow(S, rows, i) ==
    IF i = 1
    THEN IF AboveMA(rows, 1, S.ma_period)
         THEN [Signal |-> 3, QQQPeak |-> NoPeak, PeakRecovered |-> FALSE,
               current_mode |-> "ABOVE", qqq_peak_price |-> NoPeak]
         ELSE [Signal |-> 1, QQQPeak |-> rows[1].Close, PeakRecovered |-> FALSE,
               current_mode |-> "BELOW", qqq_peak_price |-> rows[1].Close]
    ELSE InverseMAStep(S, rows, i, InverseMARow(S, rows, i - 1))

\* InverseMAStrategy.is_peak_recovered
is_peak_recovered(S, qqq_price) ==
    IF S.qqq_peak_price = NoPeak THEN TRUE ELSE qqq_price >= S.qqq_peak_price

\* `int(target_value / price) - current_quantity` for a target ratio
InverseMADiff(portfolio_value, pct, price, kw) ==
    (portfolio_value * pct.n * (Scale - kw.commission_rate))
        \div (pct.d * Scale * price * Scale) - kw.current_quantity

\* `if current_quantity > 0: return -current_quantity` (else the final return 0)
SellAll(kw) == IF kw.current_quantity > 0 THEN 0 - kw.current_quantity ELSE 0

\* InverseMAStrategy.calculate_position_size
InverseMA_calculate_position_size(S, portfolio_value, price, signal, kw) ==
    IF signal = 0 \/ price <= 0 \/ kw.ticker = None \/ kw.mode = None THEN 0
    ELSE IF signal = 1 /\ kw.mode = "BELOW"
    THEN CASE S.below_mode = "tqqq" ->
                IF kw.ticker = S.tqqq_ticker
                THEN IF InverseMADiff(portfolio_value, Ratio(1, 1), price, kw) < 0
                        /\ ~is_peak_recovered(S, kw.qqq_price)
                     THEN 0
                     ELSE InverseMADiff(portfolio_value, Ratio(1, 1), price, kw)
                ELSE SellAll(kw)
           [] S.below_mode = "cash" -> SellAll(kw)
           [] S.below_mode = "covered_call" ->
                IF kw.ticker = S.covered_call_ticker
                THEN InverseMADiff(portfolio_value, Ratio(1, 1), price, kw)
                ELSE SellAll(kw)
    ELSE IF signal = 3 /\ kw.mode = "ABOVE"
    THEN IF kw.ticker = S.qqq_ticker
         THEN InverseMADiff(portfolio_value, S.stock1_pct, price, kw)
         ELSE IF kw.ticker = S.tqqq_ticker
         THEN InverseMADiff(portfolio_value, S.stock2_pct, price, kw)
         ELSE SellAll(kw)
    ELSE 0

MaxBars == 4
BaseCloses == {6, 9, 10}

InitInverseMA ==
    /\ portfolio = NewPortfolio(EngineCash, 1)
    /\ last = NoCall
    /\ engine = NoEngine
    /\ strategy = InverseMAStrategy("Q", "Q", "T", 2, "tqqq")
    /\ \E series \in [1..MaxBars -> BaseCloses] :
         data_dict = [t \in {"Q"} |->
                         DataFrame(TRUE, [d \in 1..MaxBars |-> d], series)]
    /\ run = Idle(portfolio, strategy, engine)
    /\ report = NoReport

\* strategy.generate_signals(data_dict[base_ticker]); Mode is no column of the
\* frame: it keeps current_mode as it stood after each row, which is the mode
\* the caller passes for the bar
GenerateSignals ==
    /\ strategy.cls = "InverseMA" /\ run.pc = "INIT"
    /\ \E rows \in {data_dict[strategy.base_ticker].rows} :
         /\ run' = [run EXCEPT !.pc = "RUNNING",
                       !.frame = [i \in 1..Len(rows) |->
                                     [date |-> rows[i].date, Close |-> rows[i].Close,
                                      Signal |-> InverseMARow(strategy, rows, i).Signal,
                                      QQQPeak |-> InverseMARow(strategy, rows, i).QQQPeak,
                                      PeakRecovered |->
                                          InverseMARow(strategy, rows, i).PeakRecovered,
                                      Mode |-> InverseMARow(strategy, rows, i).current_mode]]]
         /\ strategy' = [strategy EXCEPT
               !.current_mode = InverseMARow(strategy, rows, Len(rows)).current_mode,
               !.qqq_peak_price = InverseMARow(strategy, rows, Len(rows)).qqq_peak_price]
    /\ UNCHANGED <<portfolio, last, report, engine, data_dict>>

\* the ledger once the bar's price has been written to the TQQQ position
PricedLedger(P, ticker, price) ==
    IF ticker \in DOMAIN P.positions THEN update_price(P, ticker, price) ELSE P

\* the sizing of the TQQQ ticker on a bar, with the bar's signal and regime
\* and the base close as qqq_price, the TQQQ being priced as the base
TqqqSizing(S, P, row) ==
    InverseMA_calculate_position_size(S, total_value(P), row.Close, row.Signal,
        [ticker |-> S.tqqq_ticker, current_quantity |-> quantity_of(P, S.tqqq_ticker),
         cash |-> P.cash, commission_rate |-> P.commission_rate,
         mode |-> row.Mode, qqq_price |-> row.Close])

\* the next bar: the price update, the sizing call and the order it leads to
SizeTqqq ==
    /\ strategy.cls = "InverseMA" /\ run.pc = "RUNNING" /\ run.i < Len(run.frame)
    /\ \E row \in {run.frame[run.i + 1]} :
       \E P \in {PricedLedger(portfolio, strategy.tqqq_ticker, row.Close)} :
       \E X \in {Trade(Context(P, strategy, run.log), Sized(TqqqSizing(strategy, P, row)),
                       strategy.tqqq_ticker, row.Close, row.date)} :
         /\ portfolio' = X.P
         /\ run' = [run EXCEPT !.log = X.log, !.i = @ + 1]
         /\ report' = [op |-> "calculate_position_size", input |-> row,
                       result |-> TqqqSizing(strategy, P, row)]
    /\ UNCHANGED <<last, engine, strategy, data_dict>>

NextInverseMA == GenerateSignals \/ SizeTqqq

SpecInverseMA == InitInverseMA /\ [][NextInverseMA]_vars

\* the bars e..k all closed below the peak recorded at the BELOW entry e
PeakNotReached(e, k) ==
    \A j \in e..k : run.frame[j].Close < run.frame[e].QQQPeak

\* bar e switched the regime to BELOW and the ledger bought TQQQ on it
MovedIntoTqqq(e) ==
    /\ run.frame[e].Signal = 1
    /\ Traded(run.frame[e].date, "BUY", strategy.tqqq_ticker)

\* C29: with InverseMA, once the regime has switched to BELOW and the
\* portfolio has moved into TQQQ, no TQQQ is sold on a later bar as long as
\* the base close has not reached the peak recorded at that entry.
C29_NoTqqqSaleBeforeRecovery ==
    (strategy.cls = "InverseMA" /\ run.pc = "RUNNING") =>
        \A e \in 1..run.i : \A k \in (e + 1)..run.i :
            (MovedIntoTqqq(e) /\ PeakNotReached(e, k))
            => ~Traded(run.frame[k].date, "SELL", strategy.tqqq_ticker)

\* the same while the regime stays BELOW after the entry
C29_NoTqqqSaleWhileBelow ==
    (strategy.cls = "InverseMA" /\ run.pc = "RUNNING") =>
        \A e \in 1..run.i : \A k \in (e + 1)..run.i :
            (/\ MovedIntoTqqq(e) /\ PeakNotReached(e, k)
             /\ \A j \in e..k : run.frame[j].Mode = "BELOW")
            => ~Traded(run.frame[k].date, "SELL", strategy.tqqq_ticker)

(***************************************************************************)
(* C30: the periodic-rebalance signal of a time_based Shannon strategy      *)
(***************************************************************************)
TimeBased == strategy.cls = "Shannon" /\ strategy.rebalance_mode = "time_based"

\* the engine is about to process a bar whose base signal is 2
SimplePeriodicDay ==
    /\ engine.kind = "simple" /\ run.pc = "RUNNING" /\ run.i < Len(run.all_dates)
    /\ TimeBased
    /\ run.frame[run.i + 1].Signal = 2

MultiPeriodicDay ==
    /\ engine.kind = "multi" /\ run.pc = "RUNNING" /\ run.i < Len(run.all_dates)
    /\ TimeBased
    /\ BaseRow(strategy, data_dict, Today).Signal = 2

\* the iteration X has placed the order a delta q of a ticker leads to
OrderedToday(X, ticker, q) ==
    \E k \in (Len(run.log) + 1)..Len(X.log) :
        /\ X.log[k].ticker = ticker
        /\ X.log[k].quantity = Abs(q)
        /\ X.log[k].action = IF q > 0 THEN "BUY" ELSE "SELL"

SimplePeriodicExecuted ==
    SimplePeriodicDay =>
      LET t   == engine.tickers[1]
          row == run.frame[run.i + 1]
          X   == Context(portfolio, strategy, run.log)
          z   == SimpleSizing(SimplePrice(X, t, row), engine, t, row)
      IN (z.exc = None /\ z.q # 0) => OrderedToday(SimpleDay(engine, X, row), t, z.q)

MultiPeriodicExecuted ==
    MultiPeriodicDay =>
      LET h      == DayHead(engine, portfolio, strategy, data_dict, Today)
          orders == MultiOrdersToday(h, 2)
          X      == ShannonPath(WithMode(Context(h.P, strategy, run.log), h.row), h.E,
                                h.prices, Today, 2)
      IN \A i \in 1..Len(orders) :
            (orders[i].z.exc = None /\ orders[i].z.q # 0)
            => OrderedToday(X, orders[i].ticker, orders[i].z.q)

\* C30: on every bar whose base signal is the periodic-rebalance code 2 of a
\* time_based Shannon strategy, the engine sizes the stock ticker (and the
\* bond ticker) against the target ratio and places the resulting orders on
\* that bar, in the single-asset engine and in the multi-asset engine.
C30_PeriodicRebalanceExecuted ==
    /\ SimplePeriodicExecuted
    /\ MultiPeriodicExecuted

(***************************************************************************)
(* Specification SpecSignals: a caller hands a price frame to              *)
(* strategy.generate_signals, as backtest.py does for each signalled       *)
(* ticker; the frame may lack the bar of any date                          *)
(***************************************************************************)
MaxSignalDays == 5
SignalCloses == {4, 5, 8}

SignalStrategies ==
    { ShannonStrategy(Half, "S", None, "time_based", 1, Tenth),
      ShannonStrategy(Half, "S", None, "time_based", 2, Tenth),
      ShannonStrategy(Half, "S", None, "time_based", 3, Tenth),
      ShannonStrategy(Half, "S", None, "banding", 30, Tenth),
      BuyHoldStrategy(Ratio(1, 1), "S"),
      MovingAverageStrategy("S", "B", 2),
      MovingAverageStrategy("S", "B", 3),
      MovingAverageRebalanceStrategy(None, "S", "T", "B", 2, Half, Half, Twentieth),
      MovingAverageShannonHybridStrategy("S", None, 2, Half, Tenth),
      MovingAverageShannonHybridStrategy("S", None, 3, Half, Tenth),
      MovingAverageShannonHybrid2Strategy("S", "B", 2, Half, Tenth),
      InverseMAStrategy("S", "S", "T", 2, "tqqq") }

InitSignals ==
    /\ portfolio = NewPortfolio(EngineCash, 1)
    /\ last = NoCall
    /\ engine = NoEngine
    /\ strategy \in SignalStrategies
    /\ \E series \in [1..MaxSignalDays -> SignalCloses \cup {NoBar}] :
         data_dict = [t \in {"S"} |->
                         DataFrame(TRUE, [d \in 1..MaxSignalDays |-> d], series)]
    /\ run = Idle(portfolio, strategy, engine)
    /\ report = NoReport

\* signals = strategy.generate_signals(data_dict[ticker]): the frame returned
\* is kept beside the frame passed
CallGenerateSignals ==
    /\ report = NoReport /\ strategy.cls # "InverseMA"
    /\ \E g \in {generate_signals(strategy, data_dict["S"])} :
         /\ strategy' = g.strategy
         /\ report' = [op |-> "generate_signals", input |-> data_dict["S"].rows,
                       result |-> [rows |-> g.df.rows, err |-> g.err]]
    /\ UNCHANGED <<portfolio, last, engine, data_dict, run>>

\* an InverseMA strategy is called on a frame that has a bar (its frame,
\* which has columns of its own, is kept in run.frame)
InverseMASignals == Len(data_dict["S"].rows) > 0 /\ GenerateSignals

NextSignals == CallGenerateSignals \/ InverseMASignals

SpecSignals == InitSignals /\ [][NextSignals]_vars

\* the rows of the frame generate_signals has returned (none before the call
\* and when the call has raised)
Signalled ==
    IF report.op = "generate_signals" /\ report.result.err = None
    THEN report.result.rows ELSE << >>

(***************************************************************************)
(* C31: the rebalance bars of Shannon's time_based mode                    *)
(***************************************************************************)
\* the bar the period of bar i is counted from: the last rebalance bar before
\* i, the first bar when there is none
PreviousRebalance(rows, i) ==
    IF \E j \in 2..(i - 1) : rows[j].Signal = 2
    THEN CHOOSE j \in 2..(i - 1) :
            /\ rows[j].Signal = 2
            /\ \A k \in (j + 1)..(i - 1) : rows[k].Signal # 2
    ELSE 1

\* C31: in the frame a time_based Shannon strategy returns, a bar after the
\* first has Signal 2 exactly when at least rebalance_freq days lie between
\* it and the previous rebalance bar (the first bar when there is none); the
\* first bar is no rebalance bar, and two consecutive rebalance bars are at
\* least rebalance_freq days apart.
C31_TimeBasedRebalance ==
    (strategy.cls = "Shannon" /\ strategy.rebalance_mode = "time_based") =>
        \A rows \in {Signalled} :
            /\ Len(rows) > 0 => rows[1].Signal # 2
            /\ \A i \in 2..Len(rows) :
                  /\ rows[i].Signal = 2
                       <=> rows[i].date - rows[PreviousRebalance(rows, i)].date
                               >= strategy.rebalance_freq
                  /\ rows[i].Signal \in {0, 2}
            /\ \A i, j \in 2..Len(rows) :
                  (i < j /\ rows[i].Signal = 2 /\ rows[j].Signal = 2)
                  => rows[j].date - rows[i].date >= strategy.rebalance_freq

\* a frame with two rebalance bars and, between them, a bar that came too
\* early to be one
C31_Witness ==
    /\ strategy.cls = "Shannon" /\ strategy.rebalance_mode = "time_based"
    /\ \E i, k, j \in 2..Len(Signalled) :
          /\ i < k /\ k < j
          /\ Signalled[i].Signal = 2 /\ Signalled[k].Signal = 0
          /\ Signalled[j].Signal = 2
          /\ Signalled[j].date - Signalled[i].date >= strategy.rebalance_freq

(***************************************************************************)
(* C32: the MovingAverage switch leaves the target alone in the ledger     *)
(***************************************************************************)
\* the date of the iteration that has just come to its end
LastDate == run.all_dates[run.i]

\* a multi-asset run of the MovingAverage strategy has ended an iteration
SwitchedDay ==
    /\ Multi /\ strategy.cls = "MovingAverage"
    /\ run.pc \in {"RUNNING", "DONE"} /\ run.i > 0

\* after a bar whose base Signal is 1, no ticker but its target is held
OnlyTargetHeld ==
    SwitchedDay =>
        \A row \in {BaseRow(strategy, run.pre.data, LastDate)} :
            row.Signal = 1 =>
                \A t \in TickerSet(engine) \ {TargetOf(strategy, row)} :
                    quantity_of(portfolio, t) = 0

\* at the end of a day the stock and the bond are not both held
AtMostOneHeld ==
    SwitchedDay =>
        ~(/\ quantity_of(portfolio, strategy.stock_ticker) > 0
          /\ quantity_of(portfolio, strategy.bond_ticker) > 0)

\* C32: in a multi-asset run of the MovingAverage strategy, after every bar
\* on which the base ticker's Signal is 1 with target ticker T no ticker
\* other than T has an open position, and at the end of every day at most one
\* of the stock and bond tickers is held.
C32_OnlyTargetHeld == OnlyTargetHeld /\ AtMostOneHeld

(***************************************************************************)
(* C33: the initial buy of the first simulated day                         *)
(***************************************************************************)
\* the first date the run simulates, the row that carries its signal, and
\* the ticker that row belongs to
FirstDay == run.all_dates[1]
FirstRow ==
    IF engine.kind = "simple" THEN run.frame[1]
    ELSE BaseRow(strategy, run.pre.data, FirstDay)
FirstTicker ==
    IF engine.kind = "simple" THEN engine.tickers[1] ELSE BaseTicker(strategy)

\* the first run of an engine has simulated its first day, on which the
\* ticker that carries the signal had a bar with a positive close
FirstDayDone ==
    /\ run.count = 1 /\ run.pc \in {"RUNNING", "DONE"} /\ run.i >= 1
    /\ run.pre.portfolio = EnginePortfolio(engine)
    /\ FirstRow.Close > 0

\* the signal of the first day is nonzero and a purchase was executed on it
InitialBuy ==
    /\ FirstRow.Signal # 0
    /\ \E t \in TickerSet(engine) : Traded(FirstDay, "BUY", t)

SimpleInitialBuy == (engine.kind = "simple" /\ FirstDayDone) => InitialBuy
MultiInitialBuy == (engine.kind = "multi" /\ FirstDayDone) => InitialBuy

\* the same in a run that starts at the first bar of the data
MultiInitialBuyFromFirstBar ==
    (engine.kind = "multi" /\ FirstDayDone /\ FirstDay = Dates[1]) => InitialBuy

\* C33: on the first simulated day of a run the ledger is empty and the
\* day's signal is nonzero, and the engine executes a buy on that day, also
\* when run() is given a start_date later than the first bar of the data.
C33_InitialBuyOnFirstDay == SimpleInitialBuy /\ MultiInitialBuy

(***************************************************************************)
(* C34: the dividends of a day in the multi-asset engine                   *)
(***************************************************************************)
\* what the trades of a log have moved into cash (sales) and out of it
NetOfTrades(trades) ==
    SumOver(DOMAIN trades,
            [k \in DOMAIN trades |->
                IF trades[k].action = "BUY"
                THEN 0 - (trades[k].amount + trades[k].commission)
                ELSE IF trades[k].action = "SELL"
                THEN trades[k].amount - trades[k].commission
                ELSE 0])

\* the tickers of a ledger that have a bar with a positive dividend on a date
DividendPayers(P, D, date) ==
    {t \in DOMAIN P.positions \cap DOMAIN D :
        HasBar(D[t], date) /\ RowAt(D[t], date).Dividends > 0}

\* quantity * dividend over the holdings of a ledger
DividendsDue(P, D, date) ==
    SumOver(DividendPayers(P, D, date),
            [t \in DividendPayers(P, D, date) |->
                P.positions[t].quantity * RowAt(D[t], date).Dividends])

\* the monthly addition of the day
AdditionDue == MonthlyAddition(engine, portfolio, Today).P.cash - portfolio.cash

\* a step that is one iteration of the multi-asset loop
MultiDayStep == Multi /\ run.pc = "RUNNING" /\ run'.i = run.i + 1

\* C34: in every iteration of the multi-asset engine each ticker held at the
\* start of the day that has a bar with a positive dividend is credited
\* quantity * dividend once, on the holding as it stood before the orders of
\* the day (what else moves the cash is the monthly addition and the trades
\* of the day, which are sized on the price of the day); a held ticker
\* without a bar on the date keeps its price and receives nothing.
C34_DividendsBeforeOrders ==
    [][MultiDayStep =>
         /\ portfolio'.cash
              = portfolio.cash + AdditionDue
                  + DividendsDue(portfolio, data_dict, Today)
                  + NetOfTrades(SubSeq(portfolio'.trades, Len(portfolio.trades) + 1,
                                       Len(portfolio'.trades)))
         /\ \A k \in (Len(portfolio.trades) + 1)..Len(portfolio'.trades) :
               /\ portfolio'.trades[k].date = Today
               /\ portfolio'.trades[k].price
                    = RowAt(data_dict[portfolio'.trades[k].ticker], Today).Close
         /\ \A t \in DOMAIN portfolio.positions \cap DOMAIN portfolio'.positions :
               (t \in DOMAIN data_dict /\ ~HasBar(data_dict[t], Today))
               => /\ portfolio'.positions[t].current_price
                       = portfolio.positions[t].current_price
                  /\ portfolio'.positions[t].quantity
                       = portfolio.positions[t].quantity]_vars

\* a day has ended on which a ticker bought on an earlier date had a bar
\* with a positive dividend, and on which an order was executed
C34_Witness ==
    /\ Multi /\ run.pc \in {"RUNNING", "DONE"} /\ run.i > 0
    /\ \E t \in TickerSet(engine) \cap DOMAIN data_dict :
          /\ HasBar(data_dict[t], LastDate)
          /\ RowAt(data_dict[t], LastDate).Dividends > 0
          /\ \E k \in DOMAIN portfolio.trades :
                /\ portfolio.trades[k].ticker = t
                /\ portfolio.trades[k].action = "BUY"
                /\ portfolio.trades[k].date < LastDate
    /\ \E t \in TickerSet(engine), a \in {"BUY", "SELL"} : Traded(LastDate, a, t)

(***************************************************************************)
(* C35: Mode and Signal of the MovingAverageShannonHybrid frame            *)
(***************************************************************************)
\* the regime of bar i: its close against the mean of the closes of the last
\* ma_period bars up to it (of all bars up to it when there are fewer)
Regime(rows, i, period) == IF AboveMA(rows, i, period) THEN "ABOVE" ELSE "BELOW"

\* C35: in the frame MovingAverageShannonHybrid returns, the Mode of every
\* bar is ABOVE exactly when its close is at or above the moving average and
\* BELOW otherwise; Signal is 1 exactly on the first bar and on the bars whose
\* Mode differs from the Mode of the bar before, 3 exactly on the other bars
\* in BELOW mode, and 0 on all remaining bars.
C35_HybridModeAndSignal ==
    strategy.cls = "MovingAverageShannonHybrid" =>
        \A rows \in {Signalled} : \A i \in 1..Len(rows) :
            /\ rows[i].Mode = Regime(rows, i, strategy.ma_period)
            /\ rows[i].Signal = 1 <=> (i = 1 \/ rows[i].Mode # rows[i - 1].Mode)
            /\ rows[i].Signal = 3
                 <=> (i > 1 /\ rows[i].Mode = rows[i - 1].Mode /\ rows[i].Mode = "BELOW")
            /\ rows[i].Signal = 0
                 <=> (i > 1 /\ rows[i].Mode = rows[i - 1].Mode /\ rows[i].Mode = "ABOVE")

\* a frame with both transitions, a quiet bar above and a quiet bar below
C35_Witness ==
    /\ strategy.cls = "MovingAverageShannonHybrid"
    /\ \E a, b, c, d \in 2..Len(Signalled) :
          /\ Signalled[a].Signal = 0 /\ Signalled[a].Mode = "ABOVE"
          /\ Signalled[b].Signal = 1 /\ Signalled[b].Mode = "BELOW"
          /\ Signalled[c].Signal = 3 /\ Signalled[c].Mode = "BELOW"
          /\ Signalled[d].Signal = 1 /\ Signalled[d].Mode = "ABOVE"

(***************************************************************************)
(* C36: the first bar of a simple-moving-average strategy                  *)
(***************************************************************************)
\* the strategies that compare the close with its simple moving average
UsesMovingAverage ==
    strategy.cls \in {"MovingAverage", "MovingAverageRebalance",
                      "MovingAverageShannonHybrid", "MovingAverageShannonHybrid2",
                      "InverseMA"}

\* what the first row of the frame shows of the branch taken for it
FirstBarAbove(row) ==
    CASE strategy.cls = "MovingAverage" ->
           row.Signal = 1 /\ row.TargetTicker = strategy.stock_ticker
      [] strategy.cls = "MovingAverageRebalance" ->
           row.Signal = 3 /\ row.TargetTicker = "ABOVE"
      [] strategy.cls \in {"MovingAverageShannonHybrid", "MovingAverageShannonHybrid2"} ->
           row.Signal = 1 /\ row.Mode = "ABOVE"
      [] strategy.cls = "InverseMA" ->
           row.Signal = 3 /\ row.Mode = "ABOVE" /\ row.QQQPeak = NoPeak

\* the rows of the frame a moving-average strategy has returned
AveragedFrame == IF strategy.cls = "InverseMA" THEN run.frame ELSE Signalled

\* C36: in every frame a simple-moving-average strategy returns, the first
\* bar's close is at or above its average (the average of one bar being the
\* close itself) and the first bar carries what the ABOVE branch writes: the
\* BELOW branch of the first bar is never taken.
C36_FirstBarAbove ==
    UsesMovingAverage =>
        \A rows \in {AveragedFrame} :
            Len(rows) > 0 =>
                /\ AboveMA(rows, 1, strategy.ma_period)
                /\ FirstBarAbove(rows[1])

\* a frame whose first bar is ABOVE and that has a bar below its average
C36_Witness ==
    /\ UsesMovingAverage
    /\ Len(AveragedFrame) > 1
    /\ FirstBarAbove(AveragedFrame[1])
    /\ \E i \in 2..Len(AveragedFrame) : ~AboveMA(AveragedFrame, i, strategy.ma_period)

(***************************************************************************)
(* C37: the holdings are the sum of the trade log                          *)
(***************************************************************************)
\* the quantities of the trades of one ticker and one action, summed
TradedQuantity(trades, ticker, action) ==
    SumOver({k \in DOMAIN trades :
                trades[k].ticker = ticker /\ trades[k].action = action},
            [k \in DOMAIN trades |-> trades[k].quantity])

\* C37: after any sequence of ledger operations the quantity held of every
\* ticker (0 when it is absent from the positions) equals the quantities of
\* its BUY trades minus the quantities of its SELL trades.
C37_HoldingsMatchLog ==
    \A t \in Tickers \cup DOMAIN portfolio.positions :
        quantity_of(portfolio, t)
          = TradedQuantity(portfolio.trades, t, "BUY")
              - TradedQuantity(portfolio.trades, t, "SELL")

\* a ticker bought twice and sold in part is still held
C37_Witness ==
    \E t \in DOMAIN portfolio.positions :
        /\ \E i, j \in DOMAIN portfolio.trades :
              /\ i < j
              /\ portfolio.trades[i].ticker = t /\ portfolio.trades[i].action = "BUY"
              /\ portfolio.trades[j].ticker = t /\ portfolio.trades[j].action = "BUY"
        /\ TradedQuantity(portfolio.trades, t, "SELL") > 0
        /\ quantity_of(portfolio, t) > 0

(***************************************************************************)
(* C38: the account of the cash                                            *)
(***************************************************************************)
\* the loop of a run is about to take a step
LoopStep == run.pc = "RUNNING" /\ run.i < Len(run.all_dates)

\* every step moves the cash by the net of the trades it appends and, when
\* it is an iteration of the multi-asset loop, by the monthly addition and
\* the dividends of the day
CashStep ==
    portfolio'.cash
      = portfolio.cash
          + (IF Multi /\ LoopStep
             THEN AdditionDue + DividendsDue(portfolio, data_dict, Today) ELSE 0)
          + NetOfTrades(SubSeq(portfolio'.trades, Len(portfolio.trades) + 1,
                               Len(portfolio'.trades)))

\* the quantity of a ticker held when a date began, by the trade log
HeldAtStartOf(t, d) ==
    TradedQuantity(SelectSeq(portfolio.trades, LAMBDA x : x.date < d), t, "BUY")
      - TradedQuantity(SelectSeq(portfolio.trades, LAMBDA x : x.date < d), t, "SELL")

\* the dividend per share of a ticker on a date, 0 without a bar
DividendOn(t, d) ==
    IF t \in DOMAIN run.pre.data
    THEN IF HasBar(run.pre.data[t], d) THEN RowAt(run.pre.data[t], d).Dividends ELSE 0
    ELSE 0

\* the dividends the dates done have paid on the holdings of their morning
DividendsReceived ==
    IF Multi
    THEN SumOver(DatesDone \X TickerSet(engine),
                 [p \in DatesDone \X TickerSet(engine) |->
                     HeldAtStartOf(p[2], p[1]) * DividendOn(p[2], p[1])])
    ELSE 0

\* the monthly injections of the dates done: one for each month begun
Injections ==
    IF Multi /\ engine.monthly_addition > 0
    THEN engine.monthly_addition * Cardinality({Month(d) : d \in DatesDone})
    ELSE 0

\* in the first run of an engine, from its construction on, the cash is the
\* initial cash with the injections, the dividends and the net of all trades
FirstRunCash ==
    (run.count <= 1 /\ run.pc \in {"INIT", "RUNNING", "DONE"}) =>
        portfolio.cash
          = portfolio.initial_cash + Injections + DividendsReceived
              + NetOfTrades(portfolio.trades)

\* C38: the cash equals initial_cash plus the monthly injections plus the
\* dividends received, minus amount + commission of every BUY trade, plus
\* amount - commission of every SELL trade, and no step of a run changes the
\* cash by anything else.
C38_CashAccount == []FirstRunCash /\ [][CashStep]_vars

\* a run has come to its end with dividends received, a purchase and a sale
C38_Witness ==
    /\ Multi /\ run.pc = "DONE" /\ run.count = 1
    /\ DividendsReceived > 0
    /\ \E i, j \in DOMAIN portfolio.trades :
          portfolio.trades[i].action = "BUY" /\ portfolio.trades[j].action = "SELL"

\* a run has come to its end with a monthly injection and a purchase
C38_WitnessInjection ==
    /\ Multi /\ run.pc = "DONE" /\ run.count = 1
    /\ Injections > 0
    /\ \E i \in DOMAIN portfolio.trades : portfolio.trades[i].action = "BUY"

(***************************************************************************)
(* C39: the ledger of an engine across its runs                            *)
(***************************************************************************)
\* run() has been called and its loop has not begun
RunBegins == run.pc = "RUNNING" /\ run.i = 0

\* C39: run() never resets the ledger the constructor created.  When its
\* loop begins the ledger is the one the call found, which in a second run
\* is what the first run left; everything a run found stays at the head of
\* the trade log and of the equity curve; and the results of a finished run
\* are all snapshots of the ledger, those of the runs before included.
C39_LedgerKeptAcrossRuns ==
    /\ RunBegins => portfolio = run.pre.portfolio
    /\ run.count >= 1 =>
          /\ portfolio.initial_cash = run.pre.portfolio.initial_cash
          /\ Len(portfolio.trades) >= Len(run.pre.portfolio.trades)
          /\ SubSeq(portfolio.trades, 1, Len(run.pre.portfolio.trades))
               = run.pre.portfolio.trades
          /\ Len(portfolio.equity_curve) >= run.base
          /\ SubSeq(portfolio.equity_curve, 1, run.base)
               = run.pre.portfolio.equity_curve
    /\ run.pc = "DONE" =>
          /\ engine.results = portfolio.equity_curve
          /\ Len(engine.results) >= Len(run.pre.results)
          /\ SubSeq(engine.results, 1, Len(run.pre.results)) = run.pre.results

\* a second run has finished: it began with positions and trades of the
\* first, and the results hold snapshots of both
C39_Witness ==
    /\ run.count = 2 /\ run.pc = "DONE"
    /\ DOMAIN run.pre.portfolio.positions # {}
    /\ run.pre.portfolio.trades # << >>
    /\ run.pre.portfolio.cash # run.pre.portfolio.initial_cash
    /\ run.pre.results # << >>
    /\ Len(engine.results) > Len(run.pre.results)

(***************************************************************************)
(* Specification SpecConstruct: an engine is constructed with the          *)
(* arguments the caller gives, and its ledger is then driven directly      *)
(***************************************************************************)
\* the initial_cash and commission_rate arguments explored
CashArguments == {0, 20000 * Scale}
RateArguments == {0, 5}

InitConstruct ==
    /\ \E kind \in {"simple", "multi"}, ic \in CashArguments, cr \in RateArguments :
          /\ engine = BacktestEngine(kind, <<"A">>, ic, cr, 0)
          /\ report = [op |-> "__init__",
                       input |-> [initial_cash |-> ic, commission_rate |-> cr],
                       result |-> << >>]
    /\ portfolio = EnginePortfolio(engine)
    /\ last = NoCall
    /\ strategy = NoStrategy
    /\ data_dict = NoData
    /\ run = Idle(portfolio, strategy, engine)

SpecConstruct == InitConstruct /\ [][Next]_vars

(***************************************************************************)
(* C40: a falsy constructor argument falls back to the default             *)
(***************************************************************************)
\* C40: an engine constructed with commission_rate = 0 has the default rate,
\* and every trade of its ledger is charged at the default rate; an engine
\* constructed with initial_cash = 0 has the default initial cash, with which
\* its ledger starts.
C40_FalsyArgumentsFallBack ==
    report.op = "__init__" =>
        /\ report.input.commission_rate = 0 =>
              /\ engine.commission_rate = DEFAULT_COMMISSION
              /\ portfolio.commission_rate = DEFAULT_COMMISSION
              /\ \A k \in DOMAIN portfolio.trades :
                    portfolio.trades[k].commission
                      = (portfolio.trades[k].amount \div Scale) * DEFAULT_COMMISSION
        /\ report.input.initial_cash = 0 =>
              /\ engine.initial_cash = DEFAULT_INITIAL_CASH
              /\ portfolio.initial_cash = DEFAULT_INITIAL_CASH
              /\ last.n = 0 => portfolio.cash = DEFAULT_INITIAL_CASH

\* the ledger of an engine constructed with both arguments 0 has made a
\* trade and charged a commission for it
C40_Witness ==
    /\ report.op = "__init__"
    /\ report.input.commission_rate = 0 /\ report.input.initial_cash = 0
    /\ \E k \in DOMAIN portfolio.trades : portfolio.trades[k].commission > 0

====
